---- MODULE Spec2Model ----
(***************************************************************************)
(* Story pipeline: the planner (src/pipeline/main.py), the plan model      *)
(* (src/pipeline/models.py) and the FIFO pipeline scheduler                *)
(* (src/pipeline/scheduler.py).                                            *)
(*                                                                         *)
(* Conventions                                                             *)
(*  - A text (Python str) is a sequence of tokens.  A token is a string:   *)
(*    " " and "\n" are the whitespace characters, "." "!" "?" the sentence *)
(*    terminal characters, any other token is a run of letters.            *)
(*  - Times are counted in tenths of a second (6.0 s is 60), and           *)
(*    words_per_second in tenths of a word per second (2.5 is 25).         *)
(*  - Optional[X] is a sequence of length at most one: <<>> is None.       *)
(*  - An f-string identifier is the tuple of its parts.                    *)
(***************************************************************************)
EXTENDS Integers, Sequences, FiniteSets, TLC

VARIABLES
    queue,                      \* PipelineScheduler._queue
    heap,                       \* the ScenePlan objects created so far
    plans,                      \* the scene lists returned by ingest_story, in call order
    calls,                      \* scheduling calls made so far
    pc,                         \* where PipelineScheduler.run is
    task,                       \* run's local variable `task`
    handled,                    \* the tasks handed to the handler by the current run
    startQueue,                 \* the queue as it was when the current run started
    raised,                     \* what the handler last raised in the current run, see HandlerRaisesException
    lastCall,                   \* the last scheduler call: its name, its scenes, the queue before it,
                                \* and the scenes scheduled since the last run
    default_voice,              \* StoryPipelineController.default_voice
    words_per_second,           \* StoryPipelineController.words_per_second
    minimum_segment_duration,   \* StoryPipelineController.minimum_segment_duration
    ppc,                        \* which planner function was called last
    text,                       \* planner input: the sentence
    supplemental_clips,         \* planner input: the shot's supplemental clips
    narration_chunks,           \* result of _chunk_narration
    ken_burns_segments,         \* result of _plan_ken_burns_segments
    shot,                       \* result of _build_shot_plan (Optional)
    estimated_duration,         \* result of _estimate_duration (Optional)
    ipc,                        \* which ingest_story call was made last
    story,                      \* ingest_story input: story_text
    clips_by_shot,              \* ingest_story input: inserted_clips, shot name -> supplemental clips
    added,                      \* the (shot name, clip) appended to inserted_clips for the second call
    plan,                       \* result of ingest_story(story_text, inserted_clips)
    plan_more,                  \* result of ingest_story with the clip of `added` appended
    handoff,                    \* the ScenePlan objects as they were when the plan was handed to production
    produced,                   \* the last call of a rendering collaborator: its name and what it raised
    requests,                   \* the backend's requests: payload, position in the handler, locals, response
    sum_builtin,                \* how the interpreter's sum() adds floats: "left_to_right" or "compensated"
    timing,                     \* the durations and offsets of _build_shot_plan, as binary64 floats (Optional)
    enqueued                    \* the tasks the handler has enqueued during the current run, in call order

vars == <<queue, heap, plans, calls, pc, task, handled, startQueue, raised, lastCall,
          default_voice, words_per_second, minimum_segment_duration,
          ppc, text, supplemental_clips, narration_chunks, ken_burns_segments, shot,
          estimated_duration,
          ipc, story, clips_by_shot, added, plan, plan_more,
          handoff, produced, requests, sum_builtin, timing, enqueued>>

schedulerVars == <<queue, heap, plans, calls, pc, task, handled, startQueue, raised, lastCall>>
controllerVars == <<default_voice, words_per_second, minimum_segment_duration>>
plannerVars == <<ppc, text, supplemental_clips, narration_chunks, ken_burns_segments, shot,
                 estimated_duration>>
ingestVars == <<ipc, story, clips_by_shot, added, plan, plan_more>>
productionVars == <<handoff, produced>>
backendVars == <<requests>>
timingVars == <<sum_builtin, timing>>
reentrantVars == <<enqueued>>

----------------------------------------------------------------------------
(* Bounds of the model *)

\* most shots of a scene built by a caller of schedule_scene / build_schedule
MaxShots == 2
\* most scheduling calls (schedule_scene, build_schedule, plan_and_schedule) in a behaviour
MaxCalls == 2
\* most words of a sentence handed to the planner functions
MaxWords == 82
\* most supplemental clips of one shot
MaxClips == 2

(* Program constants *)

\* main.py:245  `if len(chunk_words) >= 40`
ChunkWordLimit == 40
\* main.py:31  minimum_segment_duration: float = 6.0   (tenths of a second)
DefaultMinimumSegmentDuration == 60
\* main.py:30  narration_words_per_second: float = 2.5  (tenths of a word per second)
DefaultWordsPerSecond == 25

----------------------------------------------------------------------------
(* Generic helpers *)

Max(a, b) == IF a >= b THEN a ELSE b

RECURSIVE SumSeq(_)
\* Python's sum() over a list of numbers: a left fold from 0
SumSeq(s) == IF s = <<>> THEN 0 ELSE SumSeq(SubSeq(s, 1, Len(s) - 1)) + s[Len(s)]

RECURSIVE Flatten(_)
Flatten(ss) == IF ss = <<>> THEN <<>> ELSE Head(ss) \o Flatten(Tail(ss))

Range(s) == {s[i] : i \in 1..Len(s)}

----------------------------------------------------------------------------
(* Python str operations on token sequences *)

IsSpace(t) == t \in {" ", "\n"}
IsTerminal(t) == t \in {".", "!", "?"}

\* the least element of a non-empty set of integers
Least(S) == CHOOSE i \in S : \A j \in S : i <= j

\* str.lstrip()
LStrip(s) ==
    IF \A i \in 1..Len(s) : IsSpace(s[i]) THEN <<>>
    ELSE SubSeq(s, Least({i \in 1..Len(s) : ~IsSpace(s[i])}), Len(s))

\* str.rstrip()
RStrip(s) ==
    IF \A i \in 1..Len(s) : IsSpace(s[i]) THEN <<>>
    ELSE SubSeq(s, 1, CHOOSE i \in 1..Len(s) :
                         ~IsSpace(s[i]) /\ \A j \in (i + 1)..Len(s) : IsSpace(s[j]))

\* str.strip()
Strip(s) == RStrip(LStrip(s))

RECURSIVE Split(_)
\* str.split(): the maximal runs of non-whitespace tokens, in order.  Computed by
\* halves: a run that spans the cut is the last word of the left half joined to
\* the first word of the right half.
Split(s) ==
    IF s = <<>> THEN <<>>
    ELSE IF Len(s) = 1 THEN (IF IsSpace(s[1]) THEN <<>> ELSE <<s>>)
    ELSE LET m == Len(s) \div 2
             left == Split(SubSeq(s, 1, m))
             right == Split(SubSeq(s, m + 1, Len(s)))
         IN IF ~IsSpace(s[m]) /\ ~IsSpace(s[m + 1])
            THEN SubSeq(left, 1, Len(left) - 1)
                     \o <<left[Len(left)] \o right[1]>>
                     \o Tail(right)
            ELSE left \o right

RECURSIVE Join(_)
\* " ".join(words), computed by halves
Join(words) ==
    IF words = <<>> THEN <<>>
    ELSE IF Len(words) = 1 THEN words[1]
    ELSE Join(SubSeq(words, 1, Len(words) \div 2))
             \o <<" ">>
             \o Join(SubSeq(words, (Len(words) \div 2) + 1, Len(words)))

\* where s has a blank line: the positions of "\n\n"
BlankLines(s) == {i \in 1..(Len(s) - 1) : s[i] = "\n" /\ s[i + 1] = "\n"}

RECURSIVE SplitParagraphs(_)
\* str.split("\n\n"): cut at every non-overlapping "\n\n", left to right
SplitParagraphs(s) ==
    IF BlankLines(s) = {} THEN <<s>>
    ELSE <<SubSeq(s, 1, Least(BlankLines(s)) - 1)>>
             \o SplitParagraphs(SubSeq(s, Least(BlankLines(s)) + 2, Len(s)))

\* where (?<=[.!?])\s+ matches first in s: a whitespace token right after a terminal one
TerminalBreaks(s) == {i \in 2..Len(s) : IsSpace(s[i]) /\ IsTerminal(s[i - 1])}

RECURSIVE SplitAfterTerminal(_)
\* re.compile(r"(?<=[.!?])\s+").split(s): cut out every maximal run of whitespace
\* that directly follows a terminal character
SplitAfterTerminal(s) ==
    IF TerminalBreaks(s) = {} THEN <<s>>
    ELSE <<SubSeq(s, 1, Least(TerminalBreaks(s)) - 1)>>
             \o SplitAfterTerminal(LStrip(SubSeq(s, Least(TerminalBreaks(s)), Len(s))))

\* str.splitlines()[0] of a text that is not empty
FirstLine(s) ==
    IF \E i \in 1..Len(s) : s[i] = "\n"
    THEN SubSeq(s, 1, (CHOOSE i \in 1..Len(s) : s[i] = "\n" /\ \A j \in 1..(i - 1) : s[j] # "\n") - 1)
    ELSE s

\* [x.strip() for x in parts if x.strip()]
StripNonEmpty(parts) ==
    LET F[i \in 0..Len(parts)] ==
            IF i = 0 THEN <<>>
            ELSE IF Strip(parts[i]) = <<>> THEN F[i - 1] ELSE Append(F[i - 1], Strip(parts[i]))
    IN F[Len(parts)]

----------------------------------------------------------------------------
(* Plan model: src/pipeline/models.py *)

None == <<>>
Some(x) == <<x>>

\* metadata of an asset created without any
NoMetadata == [k \in {} |-> ""]

AssetPlan(identifier, asset_type, description, source_uri, duration, start_time, end_time, metadata) ==
    [identifier |-> identifier, asset_type |-> asset_type, description |-> description,
     source_uri |-> source_uri, duration |-> duration, start_time |-> start_time,
     end_time |-> end_time, metadata |-> metadata]

TTSChunk(identifier, chunk_text, chunk_index, start_offset, duration, voice) ==
    [identifier |-> identifier, text |-> chunk_text, chunk_index |-> chunk_index,
     start_offset |-> start_offset, duration |-> duration, voice |-> voice]

\* end_offset that leaves the chunk's own duration out
end_offset_at_start(chunk) == chunk.start_offset

\* TTSChunk.end_offset
end_offset(chunk) == chunk.start_offset + chunk.duration

KenBurnsSegment(identifier, asset_identifier, duration, zoom_start, zoom_end, pan_direction, start_offset) ==
    [identifier |-> identifier, asset_identifier |-> asset_identifier, duration |-> duration,
     zoom_start |-> zoom_start, zoom_end |-> zoom_end, pan_direction |-> pan_direction,
     start_offset |-> start_offset]

VideoClipReference(identifier, source_uri, duration, insertion_offset, description) ==
    [identifier |-> identifier, source_uri |-> source_uri, duration |-> duration,
     insertion_offset |-> insertion_offset, description |-> description]

\* ShotPlan(name=, clip_duration=, visual_prompt=, narration_text=): the rest defaults
ShotPlan(name, clip_duration, visual_prompt, narration_text) ==
    [name |-> name, clip_duration |-> clip_duration, visual_prompt |-> visual_prompt,
     narration_text |-> narration_text, assets |-> <<>>, notes |-> None,
     tts_chunks |-> <<>>, ken_burns_segments |-> <<>>, inserted_clips |-> <<>>,
     audio_track |-> None, assembled_video |-> None]

add_asset(sh, asset) == [sh EXCEPT !.assets = Append(@, asset)]
add_tts_chunk(sh, chunk) == [sh EXCEPT !.tts_chunks = Append(@, chunk)]
add_ken_burns_segment(sh, segment) == [sh EXCEPT !.ken_burns_segments = Append(@, segment)]
add_inserted_clip(sh, clip) == [sh EXCEPT !.inserted_clips = Append(@, clip)]

\* ScenePlan(name=, summary=): the rest defaults
ScenePlan(name, summary) ==
    [name |-> name, summary |-> summary, shots |-> <<>>, background_audio |-> None,
     metadata |-> NoMetadata, total_duration |-> None]

add_shot(scene, sh) == [scene EXCEPT !.shots = Append(@, sh)]

----------------------------------------------------------------------------
(* Planner: src/pipeline/main.py *)

\* len(words) / self.words_per_second, in tenths of a second
NarrationSeconds(n) == (n * 100) \div words_per_second

\* _estimate_duration without the max against minimum_segment_duration
EstimateDurationNoFloor(s) ==
    LET words == Split(s)
    IN IF words = <<>> THEN 0 ELSE NarrationSeconds(Len(words))

\* StoryPipelineController._estimate_duration
EstimateDuration(s) ==
    LET words == Split(s)
    IN IF words = <<>> THEN 0
       ELSE Max(minimum_segment_duration, NarrationSeconds(Len(words)))

\* the chunk _chunk_narration emits from chunk_words (lines 246-258 and 263-275)
EmitChunk(st, shot_name) ==
    LET chunk_index == st.chunk_index + 1
        chunk_text == Join(st.chunk_words)
        duration == Max(minimum_segment_duration, NarrationSeconds(Len(st.chunk_words)))
    IN [st EXCEPT !.chunk_index = chunk_index,
                  !.chunks = Append(@, TTSChunk(<<shot_name, "tts", chunk_index>>, chunk_text,
                                                chunk_index, st.start_offset, duration,
                                                default_voice)),
                  !.duration = duration]

\* `for word in words` (lines 243-260) is taken a chunk at a time: the test
\* `len(chunk_words) >= 40` first holds after `room` more words have been
\* appended, so with fewer words left the loop ends with all of them in
\* chunk_words, and otherwise it emits the chunk that the next `room` words
\* complete and goes on with the words behind them.

\* the emission without `start_offset += duration`
ChunkAdvanceNoOffset(st, shot_name) ==
    [EmitChunk(st, shot_name) EXCEPT !.chunk_words = <<>>]

\* the chunk the loop emits once the next `room` words are in chunk_words, and
\* the state it goes on with (lines 246-260)
ChunkAdvance(st, shot_name) ==
    [EmitChunk(st, shot_name) EXCEPT !.start_offset = @ + EmitChunk(st, shot_name).duration,
                                     !.chunk_words = <<>>]

RECURSIVE ChunkLoopOffByOne(_, _, _)
\* the loop with `>` for `>=` in `if len(chunk_words) >= 40`
ChunkLoopOffByOne(words, st, shot_name) ==
    LET room == Max(1, ChunkWordLimit + 1 - Len(st.chunk_words))
    IN IF Len(words) < room
       THEN [st EXCEPT !.chunk_words = @ \o words]
       ELSE ChunkLoopOffByOne(
                SubSeq(words, room + 1, Len(words)),
                ChunkAdvance([st EXCEPT !.chunk_words = @ \o SubSeq(words, 1, room)],
                             shot_name),
                shot_name)

RECURSIVE ChunkLoop(_, _, _)
\* `for word in words` in _chunk_narration (lines 243-260); st holds the loop's variables
ChunkLoop(words, st, shot_name) ==
    LET room == Max(1, ChunkWordLimit - Len(st.chunk_words))
    IN IF Len(words) < room
       THEN [st EXCEPT !.chunk_words = @ \o words]
       ELSE ChunkLoop(SubSeq(words, room + 1, Len(words)),
                      ChunkAdvance([st EXCEPT !.chunk_words = @ \o SubSeq(words, 1, room)],
                                   shot_name),
                      shot_name)

\* _chunk_narration without its `if chunk_words:` block after the loop
ChunkTailDropsRemainder(st, shot_name) == st.chunks

\* what _chunk_narration returns once the loop has ended in st (lines 262-277)
ChunkTail(st, shot_name) ==
    IF st.chunk_words # <<>> THEN EmitChunk(st, shot_name).chunks ELSE st.chunks

\* StoryPipelineController._chunk_narration
ChunkNarration(s, shot_name) ==
    IF s = <<>> THEN <<>>
    ELSE ChunkTail(ChunkLoop(Split(s),
                             [chunk_words |-> <<>>, chunk_index |-> 0, chunks |-> <<>>,
                              start_offset |-> 0, duration |-> 0],
                             shot_name),
                   shot_name)

\* itertools.cycle(["left_to_right", "right_to_left", "center_pull"])
Directions == <<"left_to_right", "right_to_left", "center_pull">>

\* the pass with the direction taken from the chunk's 1-based index instead of
\* from the cycle
SegmentStepDirectionByIndex(st, chunk, shot_name) ==
    LET duration == Max(minimum_segment_duration, chunk.duration)
        direction == Directions[(chunk.chunk_index % Len(Directions)) + 1]
        segment == KenBurnsSegment(<<shot_name, "kb", chunk.chunk_index>>,
                                   <<shot_name, "visual">>, duration, 10,
                                   IF direction # "center_pull" THEN 11 ELSE 12,
                                   direction, st.current_offset)
    IN [taken |-> st.taken + 1, segments |-> Append(st.segments, segment),
        current_offset |-> st.current_offset + duration]

\* the pass without `current_offset += duration`
SegmentStepNoAdvance(st, chunk, shot_name) ==
    LET duration == Max(minimum_segment_duration, chunk.duration)
        direction == Directions[(st.taken % Len(Directions)) + 1]
        segment == KenBurnsSegment(<<shot_name, "kb", chunk.chunk_index>>,
                                   <<shot_name, "visual">>, duration, 10,
                                   IF direction # "center_pull" THEN 11 ELSE 12,
                                   direction, st.current_offset)
    IN [taken |-> st.taken + 1, segments |-> Append(st.segments, segment),
        current_offset |-> st.current_offset]

\* one pass of `for chunk in chunks` in _plan_ken_burns_segments;
\* st.taken counts the next(directions) calls made so far.
\* Zoom factors are in tenths: 1.0, 1.1 and 1.2 are 10, 11 and 12.
SegmentStep(st, chunk, shot_name) ==
    LET duration == Max(minimum_segment_duration, chunk.duration)
        direction == Directions[(st.taken % Len(Directions)) + 1]
        segment == KenBurnsSegment(<<shot_name, "kb", chunk.chunk_index>>,
                                   <<shot_name, "visual">>, duration, 10,
                                   IF direction # "center_pull" THEN 11 ELSE 12,
                                   direction, st.current_offset)
    IN [taken |-> st.taken + 1, segments |-> Append(st.segments, segment),
        current_offset |-> st.current_offset + duration]

\* StoryPipelineController._plan_ken_burns_segments
PlanKenBurnsSegments(shot_name, chunks) ==
    IF chunks = <<>> THEN <<>>
    ELSE LET loop[i \in 0..Len(chunks)] ==
                 IF i = 0 THEN [taken |-> 0, segments |-> <<>>, current_offset |-> 0]
                 ELSE SegmentStep(loop[i - 1], chunks[i], shot_name)
         IN loop[Len(chunks)].segments

\* the keyword test on the sentence as written, without .lower()
LowerOmitted(t) == t

\* str.lower() of a token
Lower(t) ==
    CASE t = "A" -> "a"
      [] t = "The" -> "the"
      [] t = "Music" -> "music"
      [] t = "Hero" -> "hero"
      [] OTHER -> t

\* the letter runs of the vocabulary that hold a keyword as a proper substring
ProperSubstrings == {<<"songbird", "song">>, <<"heroes", "hero">>}

\* `keyword in lower_sentence`: a keyword is a run of letters, so it occurs in the
\* text exactly when it occurs inside one of the text's letter runs
KeywordIn(keyword, s) ==
    \E i \in 1..Len(s) : Lower(s[i]) = keyword \/ <<Lower(s[i]), keyword>> \in ProperSubstrings

\* StoryPipelineController._infer_assets_from_sentence
InferAssetsFromSentence(sentence, shot_name) ==
    LET base == <<AssetPlan(<<shot_name, "visual">>, "image_prompt", <<"Illustrate: ", sentence>>,
                            None, None, None, None, NoMetadata),
                  AssetPlan(<<shot_name, "voice">>, "voiceover",
                            <<"Narration track for the associated sentence.">>,
                            None, None, None, None, [script |-> sentence])>>
        music == IF \E keyword \in {"music", "song", "melody"} : KeywordIn(keyword, sentence)
                 THEN <<AssetPlan(<<shot_name, "music">>, "audio",
                                  <<"Background music inspired by the sentence mood.">>,
                                  None, None, None, None, NoMetadata)>>
                 ELSE <<>>
        character == IF \E keyword \in {"character", "hero", "villain"} : KeywordIn(keyword, sentence)
                     THEN <<AssetPlan(<<shot_name, "character-design">>, "concept_art",
                                      <<"Character concept reference derived from the sentence.">>,
                                      None, None, None, None, NoMetadata)>>
                     ELSE <<>>
    IN base \o music \o character

\* _build_shot_plan without line 160, the floor at the estimated duration
ClipDurationWithoutFloor(segments, clips, sentence) ==
    LET motion == SumSeq([i \in 1..Len(segments) |-> segments[i].duration])
    IN IF clips # <<>>
       THEN motion + SumSeq([i \in 1..Len(clips) |-> clips[i].duration])
       ELSE motion

\* _build_shot_plan with `=` for `+=` in line 158: the clips replace the motion
ClipDurationClipsReplaceMotion(segments, clips, sentence) ==
    LET motion == SumSeq([i \in 1..Len(segments) |-> segments[i].duration])
        total == IF clips # <<>>
                 THEN SumSeq([i \in 1..Len(clips) |-> clips[i].duration])
                 ELSE motion
    IN Max(total, EstimateDuration(sentence))

\* _build_shot_plan lines 156-160
ClipDuration(segments, clips, sentence) ==
    LET motion == SumSeq([i \in 1..Len(segments) |-> segments[i].duration])
        total == IF clips # <<>>
                 THEN motion + SumSeq([i \in 1..Len(clips) |-> clips[i].duration])
                 ELSE motion
    IN Max(total, EstimateDuration(sentence))

\* _build_shot_plan lines 172-184: one pass of `for chunk in narration_chunks`
AddChunk(sh, chunk) ==
    add_asset(add_tts_chunk(sh, chunk),
              AssetPlan(chunk.identifier \o <<"audio">>, "tts_chunk",
                        <<"Synthesised narration chunk ", chunk.chunk_index, sh.name>>,
                        None, Some(chunk.duration), Some(chunk.start_offset), Some(end_offset(chunk)),
                        [voice |-> chunk.voice, text |-> chunk.text]))

\* the pass with the clip identifier formed without idx
AddClipWithoutIndex(sh, idx, clip) ==
    LET clip_identifier == <<sh.name, "clip", 1>>
        reference == VideoClipReference(clip_identifier, clip.source_uri, clip.duration,
                                        clip.insertion_offset, clip.description)
    IN add_asset(add_inserted_clip(sh, reference),
                 AssetPlan(clip_identifier \o <<"asset">>, "external_clip",
                           <<"External clip for ", sh.name>>,
                           Some(clip.source_uri), Some(clip.duration),
                           Some(clip.insertion_offset),
                           Some(clip.insertion_offset + clip.duration), NoMetadata))

\* _build_shot_plan lines 202-222: one pass of `for idx, clip in enumerate(supplemental_clips, start=1)`
AddClip(sh, idx, clip) ==
    LET clip_identifier == <<sh.name, "clip", idx>>
        reference == VideoClipReference(clip_identifier, clip.source_uri, clip.duration,
                                        clip.insertion_offset, clip.description)
    IN add_asset(add_inserted_clip(sh, reference),
                 AssetPlan(clip_identifier \o <<"asset">>, "external_clip",
                           <<"External clip for ", sh.name>>,
                           Some(clip.source_uri), Some(clip.duration),
                           Some(clip.insertion_offset),
                           Some(clip.insertion_offset + clip.duration), NoMetadata))

\* _build_shot_plan lines 169-170: `for asset in inferred_assets: shot.add_asset(asset)`
AddAssets(sh, assets) ==
    LET loop[i \in 0..Len(assets)] ==
            IF i = 0 THEN sh ELSE add_asset(loop[i - 1], assets[i])
    IN loop[Len(assets)]

\* _build_shot_plan lines 172-184
AddChunks(sh, chunks) ==
    LET loop[i \in 0..Len(chunks)] ==
            IF i = 0 THEN sh ELSE AddChunk(loop[i - 1], chunks[i])
    IN loop[Len(chunks)]

\* _build_shot_plan lines 199-200
AddSegments(sh, segments) ==
    LET loop[i \in 0..Len(segments)] ==
            IF i = 0 THEN sh ELSE add_ken_burns_segment(loop[i - 1], segments[i])
    IN loop[Len(segments)]

\* _build_shot_plan lines 202-222
AddClips(sh, clips) ==
    LET loop[i \in 0..Len(clips)] ==
            IF i = 0 THEN sh ELSE AddClip(loop[i - 1], i, clips[i])
    IN loop[Len(clips)]

\* StoryPipelineController._build_shot_plan
BuildShotPlan(scene_index, shot_index, sentence, shot_name, clips) ==
    LET chunks == ChunkNarration(sentence, shot_name)
        segments == PlanKenBurnsSegments(shot_name, chunks)
        inferred_assets == InferAssetsFromSentence(sentence, shot_name)
        clip_duration == ClipDuration(segments, clips, sentence)
        sh0 == ShotPlan(shot_name, clip_duration, sentence, sentence)
        sh1 == AddChunks(AddAssets(sh0, inferred_assets), chunks)
        shot_audio_duration == IF chunks # <<>> THEN end_offset(chunks[Len(chunks)]) ELSE 0
        effective_audio_duration == Max(shot_audio_duration, clip_duration)
        sh2 == [sh1 EXCEPT !.audio_track =
                   Some(AssetPlan(<<shot_name, "narration">>, "audio_track",
                                  <<"Compiled narration for ", shot_name>>,
                                  None, Some(effective_audio_duration), None, None,
                                  [voice |-> default_voice,
                                   narration_duration |-> shot_audio_duration]))]
        sh3 == AddClips(AddSegments(sh2, segments), clips)
    IN [sh3 EXCEPT !.assembled_video =
           Some(AssetPlan(<<shot_name, "kenburns">>, "ken_burns_video",
                          <<"Ken Burns render for ", shot_name>>,
                          None, Some(clip_duration), None, None, NoMetadata))]

\* _split_sentences keeping only the pieces that end in a terminal character
SplitSentencesTerminatedOnly(paragraph) ==
    LET pieces == StripNonEmpty(SplitAfterTerminal(Strip(paragraph)))
        F[i \in 0..Len(pieces)] ==
            IF i = 0 THEN <<>>
            ELSE IF IsTerminal(pieces[i][Len(pieces[i])]) THEN Append(F[i - 1], pieces[i])
            ELSE F[i - 1]
    IN F[Len(pieces)]

\* StoryPipelineController._split_sentences
SplitSentences(paragraph) ==
    StripNonEmpty(SplitAfterTerminal(Strip(paragraph)))

\* inserted_clips.get(shot_name, ())
ClipsFor(inserted_clips, shot_name) ==
    IF shot_name \in DOMAIN inserted_clips THEN inserted_clips[shot_name] ELSE <<>>

\* lines 65-69 with the last shot's clip_duration for the sum
SetTotalDurationLastShot(scene) ==
    IF scene.shots = <<>>
    THEN [scene EXCEPT !.total_duration = Some(0)]
    ELSE [scene EXCEPT !.total_duration = Some(scene.shots[Len(scene.shots)].clip_duration)]

\* ingest_story lines 65-69: the scene with its total_duration set
SetTotalDuration(scene) ==
    IF scene.shots = <<>>
    THEN [scene EXCEPT !.total_duration = Some(0)]
    ELSE [scene EXCEPT !.total_duration =
             Some(SumSeq([i \in 1..Len(scene.shots) |-> scene.shots[i].clip_duration]))]

\* ingest_story lines 49-70: the scene of paragraph number `index`
BuildScene(index, paragraph, inserted_clips) ==
    LET sentences == SplitSentences(paragraph)
        loop[n \in 0..Len(sentences)] ==
            IF n = 0 THEN ScenePlan(<<"Scene", index>>, FirstLine(paragraph))
            ELSE add_shot(loop[n - 1],
                          BuildShotPlan(index, n, sentences[n], <<"Shot", index, n>>,
                                        ClipsFor(inserted_clips, <<"Shot", index, n>>)))
    IN SetTotalDuration(loop[Len(sentences)])

\* StoryPipelineController.ingest_story
IngestStory(story_text, inserted_clips) ==
    LET paragraphs == StripNonEmpty(SplitParagraphs(story_text))
    IN [index \in 1..Len(paragraphs) |-> BuildScene(index, paragraphs[index], inserted_clips)]

\* f"Scene {index}" and f"Shot {index}.{shot_number}" (ingest_story lines 51, 54):
\* the string a name tuple stands for
NameText(name) ==
    IF name[1] = "Scene" THEN "Scene " \o ToString(name[2])
    ELSE "Shot " \o ToString(name[2]) \o "." \o ToString(name[3])

\* the part of an identifier at position k >= 2: position 3 holds the number
\* (chunk_index, idx), the others the literal pieces of the f-string
PartText(identifier, k) == IF k = 3 THEN ToString(identifier[k]) ELSE identifier[k]

\* the string an identifier tuple stands for: f"{shot_name}-visual",
\* f"{shot_name}-tts-{chunk_index}", f"{chunk.identifier}-audio",
\* f"{shot_name}-clip-{idx}", f"{clip_identifier}-asset", ...
IdText(identifier) ==
    LET loop[k \in 1..Len(identifier)] ==
            IF k = 1 THEN NameText(identifier[1])
            ELSE loop[k - 1] \o "-" \o PartText(identifier, k)
    IN loop[Len(identifier)]

----------------------------------------------------------------------------
(* Rendering collaborators: src/pipeline/production.py, src/pipeline/imagery.py *)
(* A call gives the object as the call leaves it and the exception it raised  *)
(* ("none" when it returned).  `io` says whether the media libraries and the   *)
(* file system fail during the call.                                           *)

\* output_dir / f"{identifier}{suffix}", as a string
MediaPath(identifier, suffix) == "media/" \o IdText(identifier) \o suffix

\* synthesise_shot that also stores the padded length in the shot's clip_duration
synthesise_shot_sets_clip_duration(sh, io) ==
    IF sh.tts_chunks = <<>> THEN [shot |-> sh, raised |-> "ValueError"]
    ELSE IF io = "fails" THEN [shot |-> sh, raised |-> "OSError"]
    ELSE IF sh.audio_track = None THEN [shot |-> sh, raised |-> "AttributeError"]
    ELSE [shot |-> [sh EXCEPT !.clip_duration = @ + 1,
                              !.audio_track =
                       Some([sh.audio_track[1] EXCEPT
                                !.source_uri = Some(MediaPath(sh.audio_track[1].identifier, ".wav")),
                                !.duration = Some(sh.clip_duration)])],
          raised |-> "none"]

\* TTSAudioAssembler.synthesise_shot
synthesise_shot(sh, io) ==
    IF sh.tts_chunks = <<>> THEN [shot |-> sh, raised |-> "ValueError"]
    ELSE IF io = "fails" THEN [shot |-> sh, raised |-> "OSError"]
    ELSE IF sh.audio_track = None THEN [shot |-> sh, raised |-> "AttributeError"]
    ELSE [shot |-> [sh EXCEPT !.audio_track =
                       Some([sh.audio_track[1] EXCEPT
                                !.source_uri = Some(MediaPath(sh.audio_track[1].identifier, ".wav")),
                                !.duration = Some(sh.clip_duration)])],
          raised |-> "none"]

\* KenBurnsRenderer.render_shot; image_assets is the set of asset identifiers
\* the mapping has a path for, clips_exist whether every supplemental clip's
\* source_uri is a file
render_shot(sh, image_assets, references, clips_exist, io) ==
    IF sh.ken_burns_segments = <<>> THEN [shot |-> sh, raised |-> "ValueError"]
    ELSE IF \E i \in 1..Len(sh.ken_burns_segments) :
                sh.ken_burns_segments[i].asset_identifier \notin image_assets
         THEN [shot |-> sh, raised |-> "FileNotFoundError"]
    ELSE IF references # <<>> /\ ~clips_exist THEN [shot |-> sh, raised |-> "FileNotFoundError"]
    ELSE IF sh.assembled_video = None THEN [shot |-> sh, raised |-> "AttributeError"]
    ELSE IF io = "fails" THEN [shot |-> sh, raised |-> "OSError"]
    ELSE [shot |-> [sh EXCEPT !.assembled_video =
                       Some([sh.assembled_video[1] EXCEPT
                                !.source_uri = Some(MediaPath(sh.assembled_video[1].identifier, ".mp4"))])],
          raised |-> "none"]

\* PlaceholderImageFactory.create
create(asset, io) ==
    IF io = "fails" THEN [asset |-> asset, raised |-> "OSError"]
    ELSE [asset |-> [asset EXCEPT !.source_uri = Some(MediaPath(asset.identifier, ".png"))],
          raised |-> "none"]

\* KenBurnsFilmBuilder.build, lines 241-254: one pass of `for shot in scene.shots`
\* io is "works", "fails_tts" or "fails_render"
BuildShot(sh, image_assets, supplemental_map, clips_exist, io) ==
    LET spoken == IF sh.tts_chunks # <<>>
                  THEN synthesise_shot(sh, IF io = "fails_tts" THEN "fails" ELSE "works")
                  ELSE [shot |-> sh, raised |-> "none"]
    IN IF spoken.raised # "none" THEN spoken
       ELSE IF spoken.shot.audio_track = None THEN [shot |-> spoken.shot, raised |-> "ValueError"]
       ELSE render_shot(spoken.shot, image_assets,
                        ClipsFor(supplemental_map, spoken.shot.name), clips_exist,
                        IF io = "fails_render" THEN "fails" ELSE "works")

\* the (scene, shot position) pairs of `for scene in scenes: for shot in scene.shots`, in order
ShotOrder(objects, scenes) ==
    Flatten([i \in 1..Len(scenes) |->
                [j \in 1..Len(objects[scenes[i]].shots) |-> <<scenes[i], j>>]])

\* KenBurnsFilmBuilder.build on the scenes `scenes` of the objects; the media
\* libraries fail with `io` at the shot number fail_at of the order (0: at none).
\* FilmAssembler.assemble reads the rendered files and changes no plan object.
build(objects, scenes, image_assets, supplemental_map, clips_exist, fail_at, io) ==
    LET order == ShotOrder(objects, scenes)
        loop[n \in 0..Len(order)] ==
            IF n = 0 THEN [objects |-> objects, raised |-> "none"]
            ELSE IF loop[n - 1].raised # "none" THEN loop[n - 1]
            ELSE [objects |->
                     [loop[n - 1].objects EXCEPT ![order[n][1]].shots[order[n][2]] =
                         BuildShot(@, image_assets, supplemental_map, clips_exist,
                                   IF n = fail_at THEN io ELSE "works").shot],
                  raised |->
                     BuildShot(loop[n - 1].objects[order[n][1]].shots[order[n][2]],
                               image_assets, supplemental_map, clips_exist,
                               IF n = fail_at THEN io ELSE "works").raised]
    IN loop[Len(order)]

----------------------------------------------------------------------------
(* Scheduler: src/pipeline/scheduler.py *)

\* class PipelineStage, in definition order
PipelineStage ==
    <<"prompting", "media_generation", "audio_synthesis", "ken_burns_render",
      "video_assembly", "editing", "final_delivery">>

\* StageTask: `scene` is a reference into the heap, `shot` the position of the
\* shot in that scene's shots
StageTask(stage, scene, sh) == [stage |-> stage, scene |-> scene, shot |-> sh]

\* enqueue with appendleft for append
enqueue_left(q, t) == <<t>> \o q

\* PipelineScheduler.enqueue
enqueue(q, t) == Append(q, t)

\* PipelineScheduler.extend
extend(q, tasks) ==
    LET loop[i \in 0..Len(tasks)] ==
            IF i = 0 THEN q ELSE enqueue(loop[i - 1], tasks[i])
    IN loop[Len(tasks)]

\* schedule_scene with its loops swapped: every stage in turn over all the shots
schedule_scene_stage_major(q, objects, scene) ==
    IF objects[scene].shots = <<>> THEN q
    ELSE LET for_stage[k \in 0..Len(PipelineStage)] ==
                 IF k = 0 THEN q
                 ELSE LET for_shot[j \in 0..Len(objects[scene].shots)] ==
                              IF j = 0 THEN for_stage[k - 1]
                              ELSE enqueue(for_shot[j - 1], StageTask(PipelineStage[k], scene, j))
                      IN for_shot[Len(objects[scene].shots)]
         IN for_stage[Len(PipelineStage)]

\* PipelineScheduler.schedule_scene: the queue it leaves, from queue q
schedule_scene(q, objects, scene) ==
    IF objects[scene].shots = <<>> THEN q
    ELSE LET for_shot[j \in 0..Len(objects[scene].shots)] ==
                 IF j = 0 THEN q
                 ELSE LET for_stage[k \in 0..Len(PipelineStage)] ==
                              IF k = 0 THEN for_shot[j - 1]
                              ELSE enqueue(for_stage[k - 1], StageTask(PipelineStage[k], scene, j))
                      IN for_stage[Len(PipelineStage)]
         IN for_shot[Len(objects[scene].shots)]

\* build_schedule that starts from an empty queue instead of the queue it finds
build_schedule_reset(q, objects, scenes) ==
    LET loop[i \in 0..Len(scenes)] ==
            IF i = 0 THEN <<>> ELSE schedule_scene(loop[i - 1], objects, scenes[i])
    IN loop[Len(scenes)]

\* StoryPipelineController.build_schedule
build_schedule(q, objects, scenes) ==
    LET loop[i \in 0..Len(scenes)] ==
            IF i = 0 THEN q ELSE schedule_scene(loop[i - 1], objects, scenes[i])
    IN loop[Len(scenes)]

----------------------------------------------------------------------------
(* Inputs *)

\* "A hero stands at dawn. Music swells behind him.\n\nThe city burns."
StoryHero ==
    <<"A", " ", "hero", " ", "stands", " ", "at", " ", "dawn", ".", " ",
      "Music", " ", "swells", " ", "behind", " ", "him", ".", "\n", "\n",
      "The", " ", "city", " ", "burns", ".">>

\* "the city sleeps": one paragraph without terminal punctuation
StoryPlain == <<"the", " ", "city", " ", "sleeps">>

\* " Run!\n\n\n\n \n\nStop?  Go.\n": blank paragraphs, surrounding whitespace
StoryBlank ==
    <<" ", "Run", "!", "\n", "\n", "\n", "\n", " ", "\n", "\n",
      "Stop", "?", " ", " ", "Go", ".", "\n">>

Stories == {StoryHero, StoryPlain, StoryBlank}

\* a scene a caller builds by hand: ScenePlan(...) and k calls of add_shot
CallerScene(id, k) ==
    LET loop[j \in 0..k] ==
            IF j = 0 THEN ScenePlan(<<"Scene", id>>, <<>>)
            ELSE add_shot(loop[j - 1], ShotPlan(<<"Shot", id, j>>, minimum_segment_duration, <<>>, <<>>))
    IN loop[k]

\* the scene lists a caller hands to build_schedule, as the scenes' shot counts:
\* the empty list, and a scene of k shots followed by a scene without shots and
\* a scene of one shot
SceneLists == {<<>>} \cup {<<k, 0, 1>> : k \in 1..MaxShots}

----------------------------------------------------------------------------
(* Controller and scheduler operations *)

\* run is not executing.  After a BaseException has left run ("aborted") the
\* interpreter is unwinding and nothing more is modelled.
Idle == pc \in {"idle", "returned"}

\* a scheduling call starts a new round: the record of the last run is dropped
ForgetRun ==
    /\ pc' = "idle"
    /\ task' = None
    /\ handled' = <<>>
    /\ startQueue' = <<>>
    /\ raised' = "none"

\* the scenes scheduled since the last run (or since the start), in call order
Pending == IF pc = "idle" THEN lastCall.pending ELSE <<>>

\* the record of a scheduler call that schedules `scenes`
Called(op, scenes) ==
    [op |-> op, scenes |-> scenes, before |-> queue, pending |-> Pending \o scenes]

\* the references of n objects allocated after the heap's last one
Fresh(n) == [i \in 1..n |-> Len(heap) + i]

\* scheduler.schedule_scene(scene) on a scene the caller built
ScheduleScene ==
    /\ Idle /\ calls < MaxCalls
    /\ \E k \in 0..MaxShots :
         LET objects == Append(heap, CallerScene(Len(heap) + 1, k))
         IN /\ heap' = objects
            /\ queue' = schedule_scene(queue, objects, Len(objects))
            /\ lastCall' = Called("schedule_scene", Fresh(1))
    /\ calls' = calls + 1
    /\ ForgetRun
    /\ UNCHANGED plans
    /\ UNCHANGED <<controllerVars, plannerVars, ingestVars, productionVars, backendVars, timingVars, reentrantVars>>

\* controller.build_schedule(scenes) on scenes the caller built
BuildSchedule ==
    /\ Idle /\ calls < MaxCalls
    /\ \E ks \in SceneLists :
         LET objects == heap \o [i \in 1..Len(ks) |-> CallerScene(Len(heap) + i, ks[i])]
         IN /\ heap' = objects
            /\ queue' = build_schedule(queue, objects, Fresh(Len(ks)))
            /\ lastCall' = Called("build_schedule", Fresh(Len(ks)))
    /\ calls' = calls + 1
    /\ ForgetRun
    /\ UNCHANGED plans
    /\ UNCHANGED <<controllerVars, plannerVars, ingestVars, productionVars, backendVars, timingVars, reentrantVars>>

\* controller.plan_and_schedule(story_text): ingest_story, then build_schedule
PlanAndSchedule ==
    /\ Idle /\ calls < MaxCalls
    /\ \E story_text \in Stories :
         \E scenes \in {IngestStory(story_text, <<>>)} :
            /\ heap' = heap \o scenes
            /\ plans' = Append(plans, Fresh(Len(scenes)))
            /\ queue' = build_schedule(queue, heap \o scenes, Fresh(Len(scenes)))
            /\ lastCall' = Called("plan_and_schedule", Fresh(Len(scenes)))
    /\ calls' = calls + 1
    /\ ForgetRun
    /\ UNCHANGED <<controllerVars, plannerVars, ingestVars, productionVars, backendVars, timingVars, reentrantVars>>

\* scheduler.run(handler) is called
RunStart ==
    /\ Idle
    /\ pc' = "loop"
    /\ startQueue' = queue
    /\ handled' = <<>>
    /\ raised' = "none"
    /\ lastCall' = Called("run", <<>>)
    /\ enqueued' = <<>>
    /\ UNCHANGED <<queue, heap, plans, calls, task>>
    /\ UNCHANGED <<controllerVars, plannerVars, ingestVars, productionVars, backendVars, timingVars>>

\* run popping from the right end of the deque (pop instead of popleft)
RunPopRight ==
    /\ pc = "loop" /\ queue # <<>>
    /\ task' = Some(queue[Len(queue)])
    /\ queue' = SubSeq(queue, 1, Len(queue) - 1)
    /\ handled' = Append(handled, queue[Len(queue)])
    /\ pc' = "handler"
    /\ UNCHANGED <<heap, plans, calls, startQueue, raised, lastCall>>
    /\ UNCHANGED <<controllerVars, plannerVars, ingestVars, productionVars, backendVars, timingVars, reentrantVars>>

\* run, lines 63-67: `while self._queue`, popleft, handler(task) is entered
RunPop ==
    /\ pc = "loop" /\ queue # <<>>
    /\ task' = Some(Head(queue))
    /\ queue' = Tail(queue)
    /\ handled' = Append(handled, Head(queue))
    /\ pc' = "handler"
    /\ UNCHANGED <<heap, plans, calls, startQueue, raised, lastCall>>
    /\ UNCHANGED <<controllerVars, plannerVars, ingestVars, productionVars, backendVars, timingVars, reentrantVars>>

\* the handler returns; run logs and loops
HandlerReturn ==
    /\ pc = "handler"
    /\ pc' = "loop"
    /\ UNCHANGED <<queue, heap, plans, calls, task, handled, startQueue, raised, lastCall>>
    /\ UNCHANGED <<controllerVars, plannerVars, ingestVars, productionVars, backendVars, timingVars, reentrantVars>>

\* run without its `except Exception` clause: the Exception leaves run
HandlerRaisesExceptionUncaught ==
    /\ pc = "handler"
    /\ raised' = IF queue = <<>> THEN "exception_last" ELSE "exception"
    /\ pc' = "aborted"
    /\ UNCHANGED <<queue, heap, plans, calls, task, handled, startQueue, lastCall>>
    /\ UNCHANGED <<controllerVars, plannerVars, ingestVars, productionVars, backendVars, timingVars, reentrantVars>>

\* the handler raises an Exception: `except Exception` logs it and run loops.
\* raised tells whether the task was the last of the queue ("exception_last")
\* or had tasks queued behind it ("exception").
HandlerRaisesException ==
    /\ pc = "handler"
    /\ raised' = IF queue = <<>> THEN "exception_last" ELSE "exception"
    /\ pc' = "loop"
    /\ UNCHANGED <<queue, heap, plans, calls, task, handled, startQueue, lastCall>>
    /\ UNCHANGED <<controllerVars, plannerVars, ingestVars, productionVars, backendVars, timingVars, reentrantVars>>

\* the handler raises a BaseException that is no Exception (KeyboardInterrupt,
\* SystemExit, GeneratorExit): `except Exception` does not catch it and it leaves run
HandlerRaisesBaseException ==
    /\ pc = "handler"
    /\ raised' = "base_exception"
    /\ pc' = "aborted"
    /\ UNCHANGED <<queue, heap, plans, calls, task, handled, startQueue, lastCall>>
    /\ UNCHANGED <<controllerVars, plannerVars, ingestVars, productionVars, backendVars, timingVars, reentrantVars>>

\* run, line 63: the queue is empty and run returns
RunReturn ==
    /\ pc = "loop" /\ queue = <<>>
    /\ pc' = "returned"
    /\ UNCHANGED <<queue, heap, plans, calls, task, handled, startQueue, raised, lastCall>>
    /\ UNCHANGED <<controllerVars, plannerVars, ingestVars, productionVars, backendVars, timingVars, reentrantVars>>

\* no ingest_story call is being compared
IngestIdle ==
    /\ ipc = "none"
    /\ story = <<>>
    /\ clips_by_shot = <<>>
    /\ added = None
    /\ plan = <<>>
    /\ plan_more = <<>>

\* no rendering collaborator has been called
NotProduced == [op |-> "none", raised |-> "none"]

ProductionIdle ==
    /\ handoff = <<>>
    /\ produced = NotProduced

\* the backend has received no request
BackendIdle == requests = <<>>

\* no shot is being timed; sum() adds left to right
TimingIdle ==
    /\ sum_builtin = "left_to_right"
    /\ timing = None

\* no handler has enqueued a task
ReentrantIdle == enqueued = <<>>

\* the scheduler and the planner functions are not in use
SchedulerIdle ==
    /\ queue = <<>>
    /\ heap = <<>>
    /\ plans = <<>>
    /\ calls = 0
    /\ pc = "idle"
    /\ task = None
    /\ handled = <<>>
    /\ startQueue = <<>>
    /\ raised = "none"
    /\ lastCall = [op |-> "init", scenes |-> <<>>, before |-> <<>>, pending |-> <<>>]

PlannerIdle ==
    /\ ppc = "none"
    /\ text = <<>>
    /\ supplemental_clips = <<>>
    /\ narration_chunks = <<>>
    /\ ken_burns_segments = <<>>
    /\ shot = None
    /\ estimated_duration = None

Init ==
    /\ queue = <<>>
    /\ heap = <<>>
    /\ plans = <<>>
    /\ calls = 0
    /\ pc = "idle"
    /\ task = None
    /\ handled = <<>>
    /\ startQueue = <<>>
    /\ raised = "none"
    /\ lastCall = [op |-> "init", scenes |-> <<>>, before |-> <<>>, pending |-> <<>>]
    /\ default_voice = "default"
    /\ words_per_second = DefaultWordsPerSecond
    /\ minimum_segment_duration = DefaultMinimumSegmentDuration
    /\ ppc = "none"
    /\ text = <<>>
    /\ supplemental_clips = <<>>
    /\ narration_chunks = <<>>
    /\ ken_burns_segments = <<>>
    /\ shot = None
    /\ estimated_duration = None
    /\ IngestIdle
    /\ ProductionIdle
    /\ BackendIdle
    /\ TimingIdle
    /\ ReentrantIdle

Next ==
    \/ ScheduleScene
    \/ BuildSchedule
    \/ PlanAndSchedule
    \/ RunStart
    \/ RunPop
    \/ HandlerReturn
    \/ HandlerRaisesException
    \/ HandlerRaisesBaseException
    \/ RunReturn

Spec == Init /\ [][Next]_vars

----------------------------------------------------------------------------
(* The planner functions on their own: every sentence of up to MaxWords words,  *)
(* every list of up to MaxClips supplemental clips, three controller settings.  *)

Vocabulary == <<"the", "hero", "hears", "music", "near", "a", "city">>

\* the i-th word of the generated sentences
WordAt(i) == <<Vocabulary[((i - 1) % Len(Vocabulary)) + 1]>>

\* a sentence of n words, single spaces between them, closed by a full stop
Sentence(n) ==
    IF n = 0 THEN <<>> ELSE Join([i \in 1..n |-> WordAt(i)]) \o <<".">>

\* the same words with irregular whitespace: leading, doubled and trailing
Padded(n) ==
    <<" ">> \o Flatten([i \in 1..n |-> WordAt(i) \o <<" ", "\n">>])

Texts ==
    {Sentence(n) : n \in 0..MaxWords}
        \cup {<<" ", "\n">>}
        \cup {Padded(n) : n \in {1, ChunkWordLimit + 1}}

\* durations of supplemental clips, in tenths of a second; VideoClipReference
\* accepts any float, the negative one included
ClipDurations == {-200, 100}

ClipInput(n, duration) ==
    VideoClipReference(<<<<"Shot", 1, 1>>, "supplemental", n>>, "clip.mp4", duration, 0, "")

ClipLists ==
    UNION {{[i \in 1..n |-> ClipInput(i, ds[i])] : ds \in [1..n -> ClipDurations]} : n \in 0..MaxClips}

\* (words_per_second, minimum_segment_duration): the defaults, 2.0 with no
\* minimum, 5.0 with a minimum of 3.0 s.  Each rate divides 100, so the
\* quotient in NarrationSeconds is exact.
Settings == {<<DefaultWordsPerSecond, DefaultMinimumSegmentDuration>>, <<20, 0>>, <<50, 30>>}

InitPlan ==
    /\ queue = <<>>
    /\ heap = <<>>
    /\ plans = <<>>
    /\ calls = 0
    /\ pc = "idle"
    /\ task = None
    /\ handled = <<>>
    /\ startQueue = <<>>
    /\ raised = "none"
    /\ lastCall = [op |-> "init", scenes |-> <<>>, before |-> <<>>, pending |-> <<>>]
    /\ default_voice = "default"
    /\ \E setting \in Settings :
         /\ words_per_second = setting[1]
         /\ minimum_segment_duration = setting[2]
    /\ ppc = "input"
    /\ text \in Texts
    /\ supplemental_clips \in ClipLists
    /\ narration_chunks = <<>>
    /\ ken_burns_segments = <<>>
    /\ shot = None
    /\ estimated_duration = None
    /\ IngestIdle
    /\ ProductionIdle
    /\ BackendIdle
    /\ TimingIdle
    /\ ReentrantIdle

\* controller._chunk_narration(text, "Shot 1.1")
CallChunkNarration ==
    /\ ppc = "input"
    /\ narration_chunks' = ChunkNarration(text, <<"Shot", 1, 1>>)
    /\ ppc' = "chunked"
    /\ UNCHANGED <<text, supplemental_clips, ken_burns_segments, shot, estimated_duration>>
    /\ UNCHANGED <<schedulerVars, controllerVars, ingestVars, productionVars, backendVars, timingVars, reentrantVars>>

\* controller._plan_ken_burns_segments("Shot 1.1", chunks) on the chunks just made
CallPlanKenBurnsSegments ==
    /\ ppc = "chunked"
    /\ ken_burns_segments' = PlanKenBurnsSegments(<<"Shot", 1, 1>>, narration_chunks)
    /\ ppc' = "segmented"
    /\ UNCHANGED <<text, supplemental_clips, narration_chunks, shot, estimated_duration>>
    /\ UNCHANGED <<schedulerVars, controllerVars, ingestVars, productionVars, backendVars, timingVars, reentrantVars>>

\* controller._build_shot_plan(1, 1, text, "Shot 1.1", supplemental_clips)
CallBuildShotPlan ==
    /\ ppc = "input"
    /\ shot' = Some(BuildShotPlan(1, 1, text, <<"Shot", 1, 1>>, supplemental_clips))
    /\ ppc' = "built"
    /\ UNCHANGED <<text, supplemental_clips, narration_chunks, ken_burns_segments, estimated_duration>>
    /\ UNCHANGED <<schedulerVars, controllerVars, ingestVars, productionVars, backendVars, timingVars, reentrantVars>>

\* controller._estimate_duration(text)
CallEstimateDuration ==
    /\ ppc = "input"
    /\ estimated_duration' = Some(EstimateDuration(text))
    /\ ppc' = "estimated"
    /\ UNCHANGED <<text, supplemental_clips, narration_chunks, ken_burns_segments, shot>>
    /\ UNCHANGED <<schedulerVars, controllerVars, ingestVars, productionVars, backendVars, timingVars, reentrantVars>>

NextPlan ==
    \/ CallEstimateDuration
    \/ CallChunkNarration
    \/ CallPlanKenBurnsSegments
    \/ CallBuildShotPlan

SpecPlan == InitPlan /\ [][NextPlan]_vars

----------------------------------------------------------------------------
(* ingest_story on its own: a story, a map of supplemental clips, three        *)
(* controller settings; then the same story with one more clip for one shot.   *)

\* two sentences of 41 and 81 words, a blank line, a sentence of 161 words:
\* shots of 2, 3 and 5 chunks
StoryLong ==
    Sentence(ChunkWordLimit + 1) \o <<" ">> \o Sentence(2 * ChunkWordLimit + 1)
        \o <<"\n", "\n">> \o Sentence(4 * ChunkWordLimit + 1)

\* "Heroes sing a songbird melody": keywords inside longer words, no terminal
StoryKeywords == <<"Heroes", " ", "sing", " ", "a", " ", "songbird", " ", "melody">>

IngestStories == Stories \cup {StoryLong, StoryKeywords, <<>>, <<" ", "\n", "\n", " ">>}

\* the shot names supplemental clips are given for; the last is in no plan
ClipShots == {<<"Shot", 1, 1>>, <<"Shot", 1, 2>>, <<"Shot", 3, 1>>}

\* a caller's clip number n of a shot
ClipFor(shot_name, n, duration) ==
    VideoClipReference(<<shot_name, "supplemental", n>>, "clip.mp4", duration, 0, "")

\* the clip lists of up to MaxClips clips for a shot
ClipListsFor(shot_name) ==
    UNION {{[i \in 1..n |-> ClipFor(shot_name, i, ds[i])] : ds \in [1..n -> ClipDurations]} :
              n \in 0..MaxClips}

\* inserted_clips: no map (None), or a map that gives clips to one of the shots
ClipMaps ==
    {<<>>} \cup UNION {{[name \in {shot_name} |-> clips] : clips \in ClipListsFor(shot_name)} :
                          shot_name \in ClipShots}

\* durations (> 0) of the clip that is added for the second call
AddedDurations == {10, 100}

\* inserted_clips with `clip` appended to the list of shot_name
WithClip(clips_map, shot_name, clip) ==
    [name \in (DOMAIN clips_map) \cup {shot_name} |->
        IF name = shot_name THEN Append(ClipsFor(clips_map, shot_name), clip)
        ELSE clips_map[name]]

InitIngest ==
    /\ SchedulerIdle
    /\ PlannerIdle
    /\ ProductionIdle
    /\ BackendIdle
    /\ TimingIdle
    /\ ReentrantIdle
    /\ default_voice = "default"
    /\ \E setting \in Settings :
         /\ words_per_second = setting[1]
         /\ minimum_segment_duration = setting[2]
    /\ ipc = "input"
    /\ story \in IngestStories
    /\ clips_by_shot \in ClipMaps
    /\ added = None
    /\ plan = <<>>
    /\ plan_more = <<>>

\* controller.ingest_story(story_text, inserted_clips)
CallIngestStory ==
    /\ ipc = "input"
    /\ plan' = IngestStory(story, clips_by_shot)
    /\ ipc' = "planned"
    /\ UNCHANGED <<story, clips_by_shot, added, plan_more>>
    /\ UNCHANGED <<schedulerVars, controllerVars, plannerVars, productionVars, backendVars, timingVars, reentrantVars>>

\* controller.ingest_story(story_text, inserted_clips) once more, the caller
\* having appended one clip of positive duration to the list of one shot
CallIngestStoryWithClip ==
    /\ ipc = "planned"
    /\ \E shot_name \in ClipShots, duration \in AddedDurations :
         LET clip == ClipFor(shot_name, Len(ClipsFor(clips_by_shot, shot_name)) + 1, duration)
         IN /\ added' = Some(<<shot_name, clip>>)
            /\ plan_more' = IngestStory(story, WithClip(clips_by_shot, shot_name, clip))
    /\ ipc' = "replanned"
    /\ UNCHANGED <<story, clips_by_shot, plan>>
    /\ UNCHANGED <<schedulerVars, controllerVars, plannerVars, productionVars, backendVars, timingVars, reentrantVars>>

NextIngest ==
    \/ CallIngestStory
    \/ CallIngestStoryWithClip

SpecIngest == InitIngest /\ [][NextIngest]_vars

----------------------------------------------------------------------------
(* Production: a plan has been scheduled; run hands its tasks to a handler     *)
(* that calls the rendering collaborator of the task's stage, and the film     *)
(* builder is called on the whole plan.                                        *)

\* "Stop? Go.": one paragraph of two sentences
StoryTwo == <<"Stop", "?", " ", "Go", ".">>

ProductionStories == {StoryPlain, StoryTwo}

\* what a collaborator call finds: images for every shot or for none, the
\* supplemental clips' files present or not, the media libraries working or not
Environments ==
    {[images |-> TRUE, clips_exist |-> TRUE, io |-> "works"],
     [images |-> FALSE, clips_exist |-> TRUE, io |-> "works"],
     [images |-> TRUE, clips_exist |-> FALSE, io |-> "works"],
     [images |-> TRUE, clips_exist |-> TRUE, io |-> "fails"]}

\* what a build call finds; the media libraries fail at the shot fail_at (0: never)
BuildEnvironments ==
    {[images |-> TRUE, clips_exist |-> TRUE, fail_at |-> 0, io |-> "works"],
     [images |-> FALSE, clips_exist |-> TRUE, fail_at |-> 0, io |-> "works"],
     [images |-> TRUE, clips_exist |-> FALSE, fail_at |-> 0, io |-> "works"],
     [images |-> TRUE, clips_exist |-> TRUE, fail_at |-> 1, io |-> "fails_tts"],
     [images |-> TRUE, clips_exist |-> TRUE, fail_at |-> 2, io |-> "fails_render"]}

\* inserted_clips: none, or the longest clip list for the first shot
ProductionClipMaps ==
    {<<>>, [name \in {<<"Shot", 1, 1>>} |->
               [i \in 1..MaxClips |-> ClipFor(<<"Shot", 1, 1>>, i, 100)]]}

\* the shots of the objects, as (object, shot position) pairs
ShotsIn(objects) ==
    UNION {{<<i, j>> : j \in 1..Len(objects[i].shots)} : i \in 1..Len(objects)}

\* the identifiers of the image assets of the objects' shots
VisualAssets(objects) ==
    UNION {{<<objects[i].shots[j].name, "visual">> : j \in 1..Len(objects[i].shots)} :
              i \in 1..Len(objects)}

\* image_assets: an image for every shot, or for none
ImageAssets(objects, images) == IF images THEN VisualAssets(objects) ELSE {}

\* supplemental_map of render_film, lines 271-275: the inserted clips by shot name
SupplementalMap(objects) ==
    LET names == UNION {{objects[i].shots[j].name : j \in 1..Len(objects[i].shots)} :
                           i \in 1..Len(objects)}
        shotOf(name) == CHOOSE ij \in ShotsIn(objects) : objects[ij[1]].shots[ij[2]].name = name
    IN [name \in {n \in names : objects[shotOf(n)[1]].shots[shotOf(n)[2]].inserted_clips # <<>>} |->
           objects[shotOf(name)[1]].shots[shotOf(name)[2]].inserted_clips]

\* the plan of a story, with or without a caller-built scene of one bare shot
\* behind it, has been scheduled
InitProduction ==
    /\ PlannerIdle
    /\ IngestIdle
    /\ default_voice = "default"
    /\ words_per_second = DefaultWordsPerSecond
    /\ minimum_segment_duration = DefaultMinimumSegmentDuration
    /\ \E story_text \in ProductionStories, clips \in ProductionClipMaps, bare \in 0..1 :
         \E scenes \in {IngestStory(story_text, clips)} :
            /\ heap = scenes \o [i \in 1..bare |-> CallerScene(Len(scenes) + i, 1)]
            /\ plans = <<[i \in 1..Len(scenes) |-> i]>>
    /\ queue = build_schedule(<<>>, heap, [i \in 1..Len(heap) |-> i])
    /\ calls = 1
    /\ pc = "idle"
    /\ task = None
    /\ handled = <<>>
    /\ startQueue = <<>>
    /\ raised = "none"
    /\ lastCall = [op |-> "build_schedule", scenes |-> [i \in 1..Len(heap) |-> i],
                   before |-> <<>>, pending |-> [i \in 1..Len(heap) |-> i]]
    /\ handoff = heap
    /\ produced = NotProduced
    /\ BackendIdle
    /\ TimingIdle
    /\ ReentrantIdle

\* what the handler's collaborator call makes of the task's shot:
\* PlaceholderImageFactory.create on the shot's first asset for prompting,
\* synthesise_shot for audio_synthesis, render_shot for ken_burns_render
StageResult(stage, sh, image_assets, clips_exist, io) ==
    CASE stage = "prompting" /\ sh.assets # <<>> ->
            [shot |-> [sh EXCEPT !.assets[1] = create(sh.assets[1], io).asset],
             raised |-> create(sh.assets[1], io).raised, op |-> "create"]
      [] stage = "audio_synthesis" ->
            [shot |-> synthesise_shot(sh, io).shot,
             raised |-> synthesise_shot(sh, io).raised, op |-> "synthesise_shot"]
      [] stage = "ken_burns_render" ->
            [shot |-> render_shot(sh, image_assets, sh.inserted_clips, clips_exist, io).shot,
             raised |-> render_shot(sh, image_assets, sh.inserted_clips, clips_exist, io).raised,
             op |-> "render_shot"]
      [] OTHER -> [shot |-> sh, raised |-> "none", op |-> "none"]

\* run, lines 65-75: the handler calls the collaborator of the task's stage on
\* the task's shot; what it raises is caught and logged, and run loops
HandleStage ==
    /\ pc = "handler"
    /\ \E env \in Environments :
         LET result == StageResult(task[1].stage, heap[task[1].scene].shots[task[1].shot],
                                   ImageAssets(heap, env.images), env.clips_exist, env.io)
         IN /\ heap' = [heap EXCEPT ![task[1].scene].shots[task[1].shot] = result.shot]
            /\ produced' = [op |-> result.op, raised |-> result.raised]
            /\ raised' = IF result.raised = "none" THEN raised
                         ELSE IF queue = <<>> THEN "exception_last" ELSE "exception"
    /\ pc' = "loop"
    /\ UNCHANGED <<queue, plans, calls, task, handled, startQueue, lastCall, handoff>>
    /\ UNCHANGED <<controllerVars, plannerVars, ingestVars, backendVars, timingVars, reentrantVars>>

\* media_builder.build(scenes, image_assets, supplemental_map) on the whole plan
FilmBuild ==
    /\ Idle
    /\ produced.op # "build"
    /\ \E env \in BuildEnvironments :
         LET result == build(heap, [i \in 1..Len(heap) |-> i], ImageAssets(heap, env.images),
                             SupplementalMap(heap), env.clips_exist, env.fail_at, env.io)
         IN /\ heap' = result.objects
            /\ produced' = [op |-> "build", raised |-> result.raised]
    /\ UNCHANGED <<queue, plans, calls, pc, task, handled, startQueue, raised, lastCall, handoff>>
    /\ UNCHANGED <<controllerVars, plannerVars, ingestVars, backendVars, timingVars, reentrantVars>>

NextProduction ==
    \/ RunStart
    \/ RunPop
    \/ HandleStage
    \/ RunReturn
    \/ FilmBuild

SpecProduction == InitProduction /\ [][NextProduction]_vars

----------------------------------------------------------------------------
(* Properties of the scheduler, checked under Spec *)

\* the stage order the specification gives: prompting first, final delivery last
StageOrder ==
    <<"prompting", "media_generation", "audio_synthesis", "ken_burns_render",
      "video_assembly", "editing", "final_delivery">>

\* the shot-major, stage-minor task block of a scene: 7 tasks per shot
TaskBlock(scene) ==
    [k \in 1..(7 * Len(heap[scene].shots)) |->
        [stage |-> StageOrder[((k - 1) % 7) + 1], scene |-> scene, shot |-> ((k - 1) \div 7) + 1]]

\* the task blocks of a list of scenes, one after the other
RECURSIVE TaskBlocks(_)
TaskBlocks(scenes) ==
    IF scenes = <<>> THEN <<>> ELSE TaskBlock(Head(scenes)) \o TaskBlocks(Tail(scenes))

\* run has been called and has not been followed by another scheduler call
InRun == pc \in {"loop", "handler", "returned", "aborted"}

\* C1: schedule_scene(scene) leaves the tasks already queued in place and appends
\* behind them one task per (shot, stage), shot-major and stage-minor, 7 tasks per
\* shot in the order prompting .. final_delivery; a scene without shots leaves
\* the queue as it was.
C1_ScheduleSceneShotMajor ==
    lastCall.op = "schedule_scene" =>
        /\ queue = lastCall.before \o TaskBlock(lastCall.scenes[1])
        /\ Len(queue) = Len(lastCall.before) + 7 * Len(heap[lastCall.scenes[1]].shots)
        /\ heap[lastCall.scenes[1]].shots = <<>> => queue = lastCall.before

\* C1 witness: a scene of two shots was scheduled behind tasks already queued
C1_Witness ==
    /\ lastCall.op = "schedule_scene"
    /\ Len(heap[lastCall.scenes[1]].shots) = 2
    /\ lastCall.before # <<>>
    /\ Len(queue) = Len(lastCall.before) + 14

\* C2: run hands the tasks that were queued when it started to the handler one by
\* one in enqueue order, none skipped, repeated or reordered, each removed from
\* the queue before its handler call; when run returns every one has been handed over.
C2_RunFifo ==
    InRun =>
        /\ handled \o queue = startQueue
        /\ \A i, j \in 1..Len(handled) : handled[i] = handled[j] => i = j
        /\ pc = "handler" =>
              /\ task = Some(handled[Len(handled)])
              /\ task = Some(startQueue[Len(handled)])
              /\ \A i \in 1..Len(queue) : Some(queue[i]) # task
        /\ pc = "returned" => handled = startQueue

\* C2 witness: a run over the tasks of at least two shots has returned
C2_Witness ==
    /\ pc = "returned"
    /\ Len(startQueue) >= 14
    /\ handled = startQueue

\* C3 as stated: whatever the handler raises for a task, run catches it, hands
\* the remaining tasks over, returns normally and leaves the queue empty.
C3_AnyExceptionIsolated ==
    (raised # "none" /\ pc \notin {"loop", "handler"}) =>
        /\ pc = "returned"
        /\ queue = <<>>
        /\ handled = startQueue

\* C3 amended: an Exception raised by the handler for task k is caught inside
\* run: run goes on with the tasks behind it in order, returns normally and
\* leaves the queue empty.  Only a BaseException that is no Exception leaves
\* run, and then the tasks behind k stay queued.
C3_ExceptionIsolated ==
    /\ raised \in {"exception", "exception_last"} =>
          /\ pc \in {"loop", "handler", "returned"}
          /\ handled \o queue = startQueue
    /\ pc = "returned" => (queue = <<>> /\ handled = startQueue)
    /\ pc = "aborted" => (raised = "base_exception" /\ handled \o queue = startQueue)

\* C3 witness: the handler raised an Exception for a task with tasks queued
\* behind it, and run has returned with every task handed over
C3_Witness ==
    /\ pc = "returned"
    /\ raised = "exception"
    /\ Len(startQueue) >= 14
    /\ handled = startQueue
    /\ queue = <<>>

\* C4 as stated: once plan_and_schedule has been called a second time, no queued
\* task refers to a scene of an earlier plan.
C4_ReplanDiscardsEarlierPlan ==
    (lastCall.op = "plan_and_schedule" /\ Len(plans) >= 2) =>
        \A i \in 1..Len(queue) :
            \A p \in 1..(Len(plans) - 1) : queue[i].scene \notin Range(plans[p])

\* C5: after scheduling calls with no run in between the queue is the
\* concatenation, in call order, of the scenes' shot-major task blocks, and the
\* run that follows hands exactly these tasks to the handler in that order and
\* leaves the queue empty.
C5_BatchesConcatenate ==
    /\ pc = "idle" => queue = TaskBlocks(lastCall.pending)
    /\ InRun => handled \o queue = TaskBlocks(lastCall.pending)
    /\ pc = "returned" => (handled = TaskBlocks(lastCall.pending) /\ queue = <<>>)

\* C5 witness: two calls scheduled four scenes, one of them without shots, and
\* the run over them has returned
C5_Witness ==
    /\ pc = "returned"
    /\ calls = 2
    /\ Len(lastCall.pending) = 4
    /\ \E i \in 1..4 : heap[lastCall.pending[i]].shots = <<>>
    /\ Len(handled) >= 21

\* the tasks of the queue that refer to a scene
TasksOf(scene) == {i \in 1..Len(queue) : queue[i].scene = scene}

\* C20: every scene of a plan has at least one shot, also when its paragraph has
\* no terminal punctuation, so plan_and_schedule enqueues at least 7 tasks for
\* every scene it returns and every such scene's total_duration is at least
\* minimum_segment_duration.
C20_EverySceneHasShots ==
    lastCall.op = "plan_and_schedule" =>
        /\ Len(queue) >= Len(lastCall.before) + 7 * Len(lastCall.scenes)
        /\ \A i \in 1..Len(lastCall.scenes) :
              /\ Len(heap[lastCall.scenes[i]].shots) >= 1
              /\ Cardinality(TasksOf(lastCall.scenes[i])) >= 7
              /\ heap[lastCall.scenes[i]].total_duration[1] >= minimum_segment_duration

\* C20 witness: a paragraph without terminal punctuation was planned and
\* scheduled as a scene of one shot and seven tasks
C20_Witness ==
    /\ lastCall.op = "plan_and_schedule"
    /\ Len(lastCall.scenes) = 1
    /\ heap[lastCall.scenes[1]].shots[1].narration_text = StoryPlain
    /\ Cardinality(TasksOf(lastCall.scenes[1])) = 7

----------------------------------------------------------------------------
(* Properties of the planner functions, checked under SpecPlan *)

\* chunk_index runs 1, 2, 3, ..., the first start_offset is 0 and every later
\* one is the start_offset plus the duration of the chunk before
ChunksContiguous(chunks) ==
    /\ \A i \in 1..Len(chunks) : chunks[i].chunk_index = i
    /\ chunks # <<>> => chunks[1].start_offset = 0
    /\ \A i \in 1..(Len(chunks) - 1) :
          chunks[i + 1].start_offset = chunks[i].start_offset + chunks[i].duration
    /\ \A i \in 1..Len(chunks) :
          chunks[i].start_offset = SumSeq([j \in 1..(i - 1) |-> chunks[j].duration])

\* C6: the chunks of _chunk_narration, and the tts_chunks of every shot built
\* from them, are numbered 1, 2, 3, ... and are contiguous from offset 0:
\* each start_offset is the sum of the durations of the chunks before.
C6_ChunksContiguous ==
    /\ ppc = "chunked" => ChunksContiguous(narration_chunks)
    /\ ppc = "built" => ChunksContiguous(shot[1].tts_chunks)

\* C6 witness: a sentence was cut into three chunks
C6_Witness ==
    /\ ppc = "chunked"
    /\ Len(narration_chunks) = 3
    /\ narration_chunks[3].start_offset > narration_chunks[2].start_offset

\* as many segments as chunks, the i-th named after the i-th chunk's index, the
\* first at offset 0 and each later one where the one before ends
SegmentsTrackChunks(shot_name, segments, chunks) ==
    /\ Len(segments) = Len(chunks)
    /\ \A i \in 1..Len(segments) :
          segments[i].identifier = <<shot_name, "kb", chunks[i].chunk_index>>
    /\ segments # <<>> => segments[1].start_offset = 0
    /\ \A i \in 1..(Len(segments) - 1) :
          segments[i + 1].start_offset = segments[i].start_offset + segments[i].duration

\* C7: _plan_ken_burns_segments returns one segment per chunk, in chunk order,
\* named '{shot}-kb-{chunk_index}', the first at offset 0 and contiguous after.
C7_SegmentsTrackChunks ==
    /\ ppc = "segmented" =>
          SegmentsTrackChunks(<<"Shot", 1, 1>>, ken_burns_segments, narration_chunks)
    /\ ppc = "built" =>
          SegmentsTrackChunks(shot[1].name, shot[1].ken_burns_segments, shot[1].tts_chunks)

\* C7 witness: three chunks were given three segments
C7_Witness ==
    /\ ppc = "segmented"
    /\ Len(narration_chunks) = 3
    /\ Len(ken_burns_segments) = 3
    /\ ken_burns_segments[3].start_offset > 0

\* the number of words of each chunk, in order
ChunkWordCounts(chunks) == [i \in 1..Len(chunks) |-> Len(Split(chunks[i].text))]

\* C8: every chunk holds at most 40 words, every chunk but the last exactly 40,
\* the chunks' words in order are the words of the text; 80 words give two
\* chunks of 40, and an empty text gives no chunk.
C8_ChunkSizeBound ==
    ppc = "chunked" =>
        /\ \A i \in 1..Len(narration_chunks) : Len(Split(narration_chunks[i].text)) <= 40
        /\ \A i \in 1..(Len(narration_chunks) - 1) : Len(Split(narration_chunks[i].text)) = 40
        /\ Flatten([i \in 1..Len(narration_chunks) |-> Split(narration_chunks[i].text)]) = Split(text)
        /\ Len(Split(text)) = 80 => ChunkWordCounts(narration_chunks) = <<40, 40>>
        /\ text = <<>> => narration_chunks = <<>>

\* C8 witness: a text of 80 words was cut into two chunks
C8_Witness ==
    /\ ppc = "chunked"
    /\ Len(Split(text)) = 80
    /\ Len(narration_chunks) = 2

\* C9 as stated: 81 words are cut into 2 chunks, of 40 words and 1 word.
C9_EightyOneWordsTwoChunks ==
    (ppc = "chunked" /\ Len(Split(text)) = 81) =>
        ChunkWordCounts(narration_chunks) = <<40, 1>>

\* C9 amended: 81 words are cut into 3 chunks, of 40, 40 and 1 words.
C9_EightyOneWordsThreeChunks ==
    (ppc = "chunked" /\ Len(Split(text)) = 81) =>
        ChunkWordCounts(narration_chunks) = <<40, 40, 1>>

\* C9 witness: a text of 81 words was cut, its last chunk holding one word
C9_Witness ==
    /\ ppc = "chunked"
    /\ Len(Split(text)) = 81
    /\ Len(narration_chunks) = 3
    /\ Split(narration_chunks[3].text) = <<Split(text)[81]>>

\* the sum of the durations of a list of segments or clips
TotalDuration(items) == SumSeq([i \in 1..Len(items) |-> items[i].duration])

\* C10: clip_duration of a built shot is the larger of the estimated duration of
\* its sentence and the sum of its segment durations plus the sum of its
\* supplemental clip durations, so it is never below the estimated duration of
\* the shot's narration_text.
C10_ClipDurationFormula ==
    ppc = "built" =>
        /\ shot[1].clip_duration =
              Max(EstimateDuration(text),
                  TotalDuration(shot[1].ken_burns_segments) + TotalDuration(shot[1].inserted_clips))
        /\ shot[1].clip_duration >= EstimateDuration(shot[1].narration_text)
        /\ Len(shot[1].inserted_clips) = Len(supplemental_clips)

\* C10 witness: a shot of two chunks and two supplemental clips whose summed
\* durations fall below the estimate of the sentence
C10_Witness ==
    /\ ppc = "built"
    /\ Len(shot[1].ken_burns_segments) = 2
    /\ Len(shot[1].inserted_clips) = 2
    /\ TotalDuration(shot[1].ken_burns_segments) + TotalDuration(shot[1].inserted_clips)
          < EstimateDuration(text)
    /\ shot[1].clip_duration = EstimateDuration(text)

\* the number of words of a text: the places where a run of non-whitespace begins
WordCount(s) ==
    Cardinality({i \in 1..Len(s) : ~IsSpace(s[i]) /\ (i = 1 \/ IsSpace(s[i - 1]))})

\* duration is words / words_per_second, raised to minimum_segment_duration
FlooredDuration(duration, words) ==
    /\ duration >= minimum_segment_duration
    /\ duration * words_per_second >= words * 100
    /\ duration = minimum_segment_duration \/ duration * words_per_second = words * 100

\* C12: _estimate_duration is 0 for a text without words and otherwise
\* max(minimum_segment_duration, words / words_per_second), so never below the
\* minimum; every chunk's duration is floored the same way and no pan/zoom
\* segment is shorter than the minimum.
C12_DurationFloor ==
    /\ ppc = "estimated" =>
          IF WordCount(text) = 0 THEN estimated_duration = Some(0)
          ELSE FlooredDuration(estimated_duration[1], WordCount(text))
    /\ ppc = "chunked" =>
          \A i \in 1..Len(narration_chunks) :
              FlooredDuration(narration_chunks[i].duration, WordCount(narration_chunks[i].text))
    /\ ppc = "segmented" =>
          \A i \in 1..Len(ken_burns_segments) :
              ken_burns_segments[i].duration >= minimum_segment_duration
    /\ ppc = "built" =>
          /\ \A i \in 1..Len(shot[1].tts_chunks) :
                shot[1].tts_chunks[i].duration >= minimum_segment_duration
          /\ \A i \in 1..Len(shot[1].ken_burns_segments) :
                shot[1].ken_burns_segments[i].duration >= minimum_segment_duration

\* C12 witness: a text of few words was estimated at the minimum, above what
\* its words alone take
C12_Witness ==
    /\ ppc = "estimated"
    /\ WordCount(text) = 3
    /\ minimum_segment_duration > 0
    /\ estimated_duration = Some(minimum_segment_duration)
    /\ estimated_duration[1] * words_per_second > WordCount(text) * 100

\* where the narration of a shot ends: the start_offset plus the duration of
\* its last chunk, 0 without chunks
NarrationEnd(chunks) ==
    IF chunks = <<>> THEN 0
    ELSE chunks[Len(chunks)].start_offset + chunks[Len(chunks)].duration

\* C16: a built shot has an audio_track of duration max(end of its last chunk
\* (0 without chunks), clip_duration), so never shorter than the shot, and an
\* assembled_video '{shot}-kenburns' without source_uri and of duration
\* clip_duration.
C16_AudioTrackCoversShot ==
    ppc = "built" =>
        /\ Len(shot[1].audio_track) = 1
        /\ shot[1].audio_track[1].duration =
              Some(Max(NarrationEnd(shot[1].tts_chunks), shot[1].clip_duration))
        /\ shot[1].audio_track[1].duration[1] >= shot[1].clip_duration
        /\ Len(shot[1].assembled_video) = 1
        /\ IdText(shot[1].assembled_video[1].identifier) = "Shot 1.1-kenburns"
        /\ shot[1].assembled_video[1].source_uri = None
        /\ shot[1].assembled_video[1].duration = Some(shot[1].clip_duration)

\* C16 witness: a shot of three chunks whose narration ends after its
\* clip_duration, the audio_track lasting as long as the narration
C16_Witness ==
    /\ ppc = "built"
    /\ Len(shot[1].tts_chunks) = 3
    /\ NarrationEnd(shot[1].tts_chunks) > shot[1].clip_duration
    /\ shot[1].audio_track[1].duration = Some(NarrationEnd(shot[1].tts_chunks))

----------------------------------------------------------------------------
(* Properties of ingest_story, checked under SpecIngest *)

\* the shots of a plan, as (scene position, shot position) pairs
ShotsOf(scenes) ==
    UNION {{<<i, j>> : j \in 1..Len(scenes[i].shots)} : i \in 1..Len(scenes)}

\* the shot of a plan at a (scene position, shot position) pair
ShotAt(scenes, ij) == scenes[ij[1]].shots[ij[2]]

\* C11: planning a story again with one more supplemental clip of positive
\* duration appended to one shot's clip list gives the same scenes and shots,
\* no shot a smaller clip_duration and no scene a smaller total_duration.
C11_ClipNeverShrinksShot ==
    ipc = "replanned" =>
        /\ added[1][2].duration > 0
        /\ Len(plan_more) = Len(plan)
        /\ \A i \in 1..Len(plan) :
              /\ Len(plan_more[i].shots) = Len(plan[i].shots)
              /\ plan_more[i].total_duration[1] >= plan[i].total_duration[1]
        /\ \A ij \in ShotsOf(plan) :
              /\ ShotAt(plan_more, ij).clip_duration >= ShotAt(plan, ij).clip_duration
              /\ ShotAt(plan, ij).name = added[1][1] =>
                    Len(ShotAt(plan_more, ij).inserted_clips)
                        = Len(ShotAt(plan, ij).inserted_clips) + 1

\* C11 witness: a shot that already had a clip was given one more and its
\* clip_duration and its scene's total_duration grew
C11_Witness ==
    /\ ipc = "replanned"
    /\ \E ij \in ShotsOf(plan) :
          /\ ShotAt(plan, ij).name = added[1][1]
          /\ Len(ShotAt(plan, ij).inserted_clips) >= 1
          /\ Len(ShotAt(plan_more, ij).inserted_clips) = Len(ShotAt(plan, ij).inserted_clips) + 1
          /\ ShotAt(plan_more, ij).clip_duration > ShotAt(plan, ij).clip_duration
          /\ plan_more[ij[1]].total_duration[1] > plan[ij[1]].total_duration[1]

\* an ingest_story call has returned `plan`
Planned == ipc \in {"planned", "replanned"}

\* the pan directions the specification cycles through, in order
PanCycle == <<"left_to_right", "right_to_left", "center_pull">>

\* C13: in every shot of a plan the i-th segment pans PanCycle[(i-1) mod 3],
\* starting over at left_to_right in every shot; five segments pan left, right,
\* centre, left, right; zoom_end is 1.2 for center_pull and 1.1 otherwise.
C13_PanDirectionCycles ==
    Planned =>
        \A ij \in ShotsOf(plan) :
            LET segments == ShotAt(plan, ij).ken_burns_segments
            IN /\ \A i \in 1..Len(segments) :
                     /\ segments[i].pan_direction = PanCycle[((i - 1) % 3) + 1]
                     /\ segments[i].zoom_end =
                           (IF segments[i].pan_direction = "center_pull" THEN 12 ELSE 11)
               /\ Len(segments) = 5 =>
                     [i \in 1..5 |-> segments[i].pan_direction]
                        = <<"left_to_right", "right_to_left", "center_pull",
                            "left_to_right", "right_to_left">>

\* C13 witness: a plan whose shots have 2, 3 and 5 segments, the shot after the
\* one of 2 segments starting over at left_to_right
C13_Witness ==
    /\ ipc = "planned"
    /\ Len(plan) = 2
    /\ Len(plan[1].shots) = 2
    /\ Len(plan[1].shots[1].ken_burns_segments) = 2
    /\ Len(plan[1].shots[2].ken_burns_segments) = 3
    /\ plan[1].shots[2].ken_burns_segments[1].pan_direction = "left_to_right"
    /\ Len(plan[2].shots[1].ken_burns_segments) = 5
    /\ plan[2].shots[1].ken_burns_segments[5].pan_direction = "right_to_left"

\* the identifiers of a shot's AssetPlan objects, as strings: its assets in
\* order, then its audio_track and its assembled_video
AssetIdentifiers(sh) ==
    [i \in 1..Len(sh.assets) |-> IdText(sh.assets[i].identifier)]
        \o <<IdText(sh.audio_track[1].identifier), IdText(sh.assembled_video[1].identifier)>>

\* no element of the sequence occurs twice
Distinct(s) == \A i, j \in 1..Len(s) : s[i] = s[j] => i = j

RECURSIVE TotalOfShots(_)
\* the clip_duration of the shots, added up
TotalOfShots(shots) ==
    IF shots = <<>> THEN 0 ELSE Head(shots).clip_duration + TotalOfShots(Tail(shots))

\* the paragraphs of the story that are not blank, in order
Paragraphs == StripNonEmpty(SplitParagraphs(story))

\* C15: every scene's total_duration is the sum of the clip_duration of its
\* shots, and 0 when it has no shots; the plan holds one scene per non-blank
\* paragraph, in paragraph order.
C15_SceneTotal ==
    Planned =>
        /\ Len(plan) = Len(Paragraphs)
        /\ \A i \in 1..Len(plan) :
              /\ plan[i].name = <<"Scene", i>>
              /\ plan[i].summary = FirstLine(Paragraphs[i])
              /\ plan[i].total_duration = Some(TotalOfShots(plan[i].shots))
              /\ plan[i].shots = <<>> => plan[i].total_duration = Some(0)

\* C15 witness: a scene of two shots of different clip_duration, followed by
\* another scene
C15_Witness ==
    /\ ipc = "planned"
    /\ Len(plan) = 2
    /\ Len(plan[1].shots) = 2
    /\ plan[1].shots[1].clip_duration # plan[1].shots[2].clip_duration
    /\ plan[1].total_duration[1] = plan[1].shots[1].clip_duration + plan[1].shots[2].clip_duration
    /\ plan[2].total_duration[1] = plan[2].shots[1].clip_duration

\* the asset types among a shot's assets
AssetTypes(sh) == {sh.assets[i].asset_type : i \in 1..Len(sh.assets)}

\* C19: 'A hero stands at dawn. Music swells behind him.' + blank line + 'The
\* city burns.' gives Scene 1 with Shot 1.1 (concept_art, no music) and Shot 1.2
\* (music audio, no concept_art) and Scene 2 with Shot 2.1 (neither); every shot
\* has its image_prompt and voiceover assets.
C19_HeroScenario ==
    (Planned /\ story = StoryHero) =>
        /\ [i \in 1..Len(plan) |-> NameText(plan[i].name)] = <<"Scene 1", "Scene 2">>
        /\ [j \in 1..Len(plan[1].shots) |-> NameText(plan[1].shots[j].name)]
              = <<"Shot 1.1", "Shot 1.2">>
        /\ [j \in 1..Len(plan[2].shots) |-> NameText(plan[2].shots[j].name)] = <<"Shot 2.1">>
        /\ "concept_art" \in AssetTypes(plan[1].shots[1])
        /\ "audio" \notin AssetTypes(plan[1].shots[1])
        /\ "audio" \in AssetTypes(plan[1].shots[2])
        /\ "concept_art" \notin AssetTypes(plan[1].shots[2])
        /\ "audio" \notin AssetTypes(plan[2].shots[1])
        /\ "concept_art" \notin AssetTypes(plan[2].shots[1])
        /\ \A ij \in ShotsOf(plan) :
              {"image_prompt", "voiceover"} \subseteq AssetTypes(ShotAt(plan, ij))

\* C19 witness: the story was planned, its second shot narrating the second sentence
C19_Witness ==
    /\ ipc = "planned"
    /\ story = StoryHero
    /\ Len(plan) = 2
    /\ plan[1].shots[2].narration_text
          = <<"Music", " ", "swells", " ", "behind", " ", "him", ".">>
    /\ IdText(plan[1].shots[2].assets[3].identifier) = "Shot 1.2-music"

----------------------------------------------------------------------------
(* Properties of production, checked under SpecProduction *)

\* an asset plan without the two fields production may fill in
WithoutMedia(asset) == [asset EXCEPT !.source_uri = None, !.duration = None]

\* a shot without the source_uri and duration of its asset plans
ShotFrame(sh) ==
    [sh EXCEPT !.assets = [i \in 1..Len(sh.assets) |-> WithoutMedia(sh.assets[i])],
               !.audio_track = [i \in 1..Len(sh.audio_track) |-> WithoutMedia(sh.audio_track[i])],
               !.assembled_video =
                   [i \in 1..Len(sh.assembled_video) |-> WithoutMedia(sh.assembled_video[i])]]

\* a scene without the source_uri and duration of its shots' asset plans
SceneFrame(scene) ==
    [scene EXCEPT !.shots = [j \in 1..Len(scene.shots) |-> ShotFrame(scene.shots[j])]]

\* the plan is as it was handed over, but for source_uri and duration of asset plans
PlanFrameKept ==
    /\ Len(heap) = Len(handoff)
    /\ \A i \in 1..Len(heap) : SceneFrame(heap[i]) = SceneFrame(handoff[i])

\* a step in which synthesise_shot or render_shot raises its precondition
\* error leaves every plan object as it was
PreconditionErrorChangesNothing ==
    (/\ produced'.op \in {"synthesise_shot", "render_shot"}
     /\ produced'.raised = "ValueError") => heap' = heap

\* C18: after the handoff, run and the rendering collaborators change nothing
\* in the plan but source_uri and duration of asset plans (audio_track,
\* assembled_video, entries of assets), and a synthesise_shot or render_shot
\* call that raises its precondition error changes nothing at all.
C18_ProductionFrame ==
    [](PlanFrameKept) /\ [][PreconditionErrorChangesNothing]_vars

\* C18 witness: the planned shot has its image, narration and video produced,
\* its audio_track duration set, and synthesise_shot has then raised its
\* precondition error for the caller's shot without chunks
C18_Witness ==
    /\ Len(heap) = 2
    /\ heap[1].shots[1].assets[1].source_uri # None
    /\ heap[1].shots[1].audio_track[1].source_uri # None
    /\ heap[1].shots[1].audio_track[1].duration = Some(heap[1].shots[1].clip_duration)
    /\ heap[1].shots[1].assembled_video[1].source_uri # None
    /\ heap[1] # handoff[1]
    /\ heap[2].shots[1].tts_chunks = <<>>
    /\ produced = [op |-> "synthesise_shot", raised |-> "ValueError"]

----------------------------------------------------------------------------
(* Backend: src/backend/app.py.  The handlers generate_script and render_film  *)
(* share the module-level controller; each request runs its handler in steps,  *)
(* and the steps of different requests interleave.                             *)

\* most requests in a behaviour
MaxRequests == 2

\* " \n ": whitespace only
StoryWhitespace == <<" ", "\n", " ">>

\* ImageAssetInput
ImageAssetInput(asset_identifier, path) == [asset_identifier |-> asset_identifier, path |-> path]

\* SupplementalClipInput
SupplementalClipInput(shot_name, source_uri, duration, insertion_offset, description) ==
    [shot_name |-> shot_name, source_uri |-> source_uri, duration |-> duration,
     insertion_offset |-> insertion_offset, description |-> description]

\* GenerateScriptRequest
GenerateScriptRequest(story_text) ==
    [op |-> "generate_script", story_text |-> story_text, image_assets |-> <<>>,
     supplemental_clips |-> <<>>, voice |-> None]

\* RenderFilmRequest
RenderFilmRequest(story_text, image_assets, clip_inputs, voice) ==
    [op |-> "render_film", story_text |-> story_text, image_assets |-> image_assets,
     supplemental_clips |-> clip_inputs, voice |-> voice]

\* an image of the only shot of StoryPlain, on disk
ImagePresent == ImageAssetInput(<<<<"Shot", 1, 1>>, "visual">>, "present.png")

\* an image whose path is no file
ImageAbsent == ImageAssetInput(<<<<"Shot", 1, 1>>, "visual">>, "absent.png")

\* two clips for the only shot of StoryPlain
ClipInputs ==
    <<SupplementalClipInput(<<"Shot", 1, 1>>, "clip.mp4", 100, 0, ""),
      SupplementalClipInput(<<"Shot", 1, 1>>, "clip.mp4", 10, 0, "")>>

\* the request bodies
Payloads ==
    {GenerateScriptRequest(StoryPlain),
     GenerateScriptRequest(<<>>),
     GenerateScriptRequest(StoryWhitespace),
     RenderFilmRequest(StoryPlain, <<ImagePresent>>, ClipInputs, Some("narrator")),
     RenderFilmRequest(<<" ">> \o StoryPlain \o <<"\n">>, <<ImagePresent>>, <<>>, None),
     RenderFilmRequest(StoryPlain, <<ImagePresent, ImageAbsent>>, <<>>, Some("narrator")),
     RenderFilmRequest(StoryPlain, <<>>, <<>>, Some("narrator")),
     RenderFilmRequest(StoryWhitespace, <<ImagePresent>>, <<>>, Some("narrator")),
     RenderFilmRequest(<<>>, <<>>, ClipInputs, Some(""))}

\* Path(asset.path).exists()
PathExists(path) == path = "present.png"

\* HTTPException(status_code, detail), and the handler's normal return
HTTPException(status_code, detail) == [status_code |-> status_code, detail |-> detail]

Returned == [status_code |-> 200, detail |-> ""]

NoResponse == [status_code |-> 0, detail |-> ""]

\* _group_supplemental_clips
GroupSupplementalClips(inputs) ==
    LET names == {inputs[i].shot_name : i \in 1..Len(inputs)}
        of(name) == SelectSeq(inputs, LAMBDA clip : clip.shot_name = name)
    IN [name \in names |->
           [n \in 1..Len(of(name)) |->
               VideoClipReference(<<name, "supplemental", n>>, of(name)[n].source_uri,
                                  of(name)[n].duration, of(name)[n].insertion_offset,
                                  of(name)[n].description)]]

\* generate_script, lines 227-229
ValidateGenerateScript(payload) ==
    IF Strip(payload.story_text) = <<>>
    THEN HTTPException(400, "story_text must not be empty")
    ELSE NoResponse

\* render_film that checks the story text only
ValidateRenderFilmStoryOnly(payload) ==
    IF Strip(payload.story_text) = <<>>
    THEN HTTPException(400, "story_text must not be empty")
    ELSE IF \E i \in 1..Len(payload.image_assets) : ~PathExists(payload.image_assets[i].path)
    THEN HTTPException(400, "Image asset could not be found")
    ELSE NoResponse

\* render_film, lines 238-252
ValidateRenderFilm(payload) ==
    IF Strip(payload.story_text) = <<>>
    THEN HTTPException(400, "story_text must not be empty")
    ELSE IF payload.image_assets = <<>>
    THEN HTTPException(400, "image_assets must not be empty")
    ELSE IF \E i \in 1..Len(payload.image_assets) : ~PathExists(payload.image_assets[i].path)
    THEN HTTPException(400, "Image asset could not be found")
    ELSE NoResponse

\* a request that has reached its handler
Received(payload) ==
    [payload |-> payload, pc |-> "received", original_voice |-> None, scenes |-> <<>>,
     response |-> NoResponse]

\* the requests have arrived; the controller is as constructed
InitBackend ==
    /\ SchedulerIdle
    /\ PlannerIdle
    /\ IngestIdle
    /\ ProductionIdle
    /\ default_voice = "default"
    /\ words_per_second = DefaultWordsPerSecond
    /\ minimum_segment_duration = DefaultMinimumSegmentDuration
    /\ requests \in [1..MaxRequests -> {Received(payload) : payload \in Payloads}]
    /\ TimingIdle
    /\ ReentrantIdle

\* generate_script lines 227-229, render_film lines 238-254: the checks of the payload
Validate(r) ==
    /\ requests[r].pc = "received"
    /\ \E response \in {IF requests[r].payload.op = "render_film"
                        THEN ValidateRenderFilm(requests[r].payload)
                        ELSE ValidateGenerateScript(requests[r].payload)} :
         requests' = [requests EXCEPT ![r].pc = IF response = NoResponse THEN "validated" ELSE "done",
                                      ![r].response = response]
    /\ UNCHANGED <<schedulerVars, controllerVars, plannerVars, ingestVars, productionVars, timingVars, reentrantVars>>

\* render_film line 256: original_voice = controller.default_voice
SaveVoice(r) ==
    /\ requests[r].pc = "validated"
    /\ requests[r].payload.op = "render_film"
    /\ requests' = [requests EXCEPT ![r].pc = "saved", ![r].original_voice = Some(default_voice)]
    /\ UNCHANGED <<schedulerVars, controllerVars, plannerVars, ingestVars, productionVars, timingVars, reentrantVars>>

\* render_film lines 257-258: `if payload.voice:` is false for None and for ""
OverrideVoice(r) ==
    /\ requests[r].pc = "saved"
    /\ default_voice' = IF requests[r].payload.voice \notin {None, Some("")}
                        THEN requests[r].payload.voice[1]
                        ELSE default_voice
    /\ requests' = [requests EXCEPT ![r].pc = "overridden"]
    /\ UNCHANGED <<words_per_second, minimum_segment_duration>>
    /\ UNCHANGED <<schedulerVars, plannerVars, ingestVars, productionVars, timingVars, reentrantVars>>

\* generate_script line 231, render_film line 261: controller.plan_and_schedule
Plan(r) ==
    /\ \/ requests[r].pc = "overridden"
       \/ requests[r].pc = "validated" /\ requests[r].payload.op = "generate_script"
    /\ \E scenes \in {IngestStory(Strip(requests[r].payload.story_text),
                                  GroupSupplementalClips(requests[r].payload.supplemental_clips))} :
         /\ heap' = heap \o scenes
         /\ plans' = Append(plans, Fresh(Len(scenes)))
         /\ queue' = build_schedule(queue, heap \o scenes, Fresh(Len(scenes)))
         /\ lastCall' = Called("plan_and_schedule", Fresh(Len(scenes)))
         /\ requests' = [requests EXCEPT
                            ![r].scenes = Fresh(Len(scenes)),
                            ![r].pc = IF requests[r].payload.op = "render_film"
                                      THEN "planned" ELSE "done",
                            ![r].response = IF requests[r].payload.op = "render_film"
                                            THEN NoResponse ELSE Returned]
    /\ calls' = calls + 1
    /\ UNCHANGED <<pc, task, handled, startQueue, raised>>
    /\ UNCHANGED <<controllerVars, plannerVars, ingestVars, productionVars, timingVars, reentrantVars>>

\* render_film lines 262-263: finally, controller.default_voice = original_voice
RestoreVoice(r) ==
    /\ requests[r].pc = "planned"
    /\ default_voice' = requests[r].original_voice[1]
    /\ requests' = [requests EXCEPT ![r].pc = "restored"]
    /\ UNCHANGED <<words_per_second, minimum_segment_duration>>
    /\ UNCHANGED <<schedulerVars, plannerVars, ingestVars, productionVars, timingVars, reentrantVars>>

\* render_film lines 265-298: media_builder.build and the response
Build(r) ==
    /\ requests[r].pc = "restored"
    /\ \E env \in {e \in BuildEnvironments : e.images} :
         LET scenes == requests[r].scenes
             result == build(heap, scenes,
                             {requests[r].payload.image_assets[i].asset_identifier :
                                 i \in 1..Len(requests[r].payload.image_assets)},
                             SupplementalMap([i \in 1..Len(scenes) |-> heap[scenes[i]]]),
                             env.clips_exist, env.fail_at, env.io)
         IN /\ heap' = result.objects
            /\ requests' = [requests EXCEPT
                               ![r].pc = "done",
                               ![r].response =
                                   IF result.raised = "none" THEN Returned
                                   ELSE IF result.raised = "FileNotFoundError"
                                   THEN HTTPException(400, "FileNotFoundError")
                                   ELSE HTTPException(500, "Failed to render film")]
    /\ UNCHANGED <<queue, plans, calls, pc, task, handled, startQueue, raised, lastCall>>
    /\ UNCHANGED <<controllerVars, plannerVars, ingestVars, productionVars, timingVars, reentrantVars>>

NextBackend ==
    \/ \E r \in 1..MaxRequests : Validate(r)
    \/ \E r \in 1..MaxRequests : SaveVoice(r)
    \/ \E r \in 1..MaxRequests : OverrideVoice(r)
    \/ \E r \in 1..MaxRequests : Plan(r)
    \/ \E r \in 1..MaxRequests : RestoreVoice(r)
    \/ \E r \in 1..MaxRequests : Build(r)

SpecBackend == InitBackend /\ [][NextBackend]_vars

----------------------------------------------------------------------------
(* Properties of the backend, checked under SpecBackend *)

\* the payload fails a check the claim names: story_text empty or whitespace
\* only, or a render_film request without image_assets
InvalidInput(payload) ==
    \/ Strip(payload.story_text) = <<>>
    \/ payload.op = "render_film" /\ payload.image_assets = <<>>

\* a finished request with such a payload was rejected, and has neither
\* planned nor saved the voice
InvalidRejected ==
    \A r \in 1..MaxRequests :
        InvalidInput(requests[r].payload) =>
            /\ requests[r].pc \in {"received", "done"}
            /\ requests[r].pc = "done" => requests[r].response.status_code = 400
            /\ requests[r].scenes = <<>>
            /\ requests[r].original_voice = None

\* a step of a request with such a payload ends the request, and leaves the
\* controller's scheduler queue, default_voice and plans as they were
InvalidTouchesNothing ==
    \A r \in 1..MaxRequests :
        (InvalidInput(requests[r].payload) /\ requests'[r] # requests[r]) =>
            /\ requests'[r].pc = "done"
            /\ queue' = queue
            /\ default_voice' = default_voice
            /\ heap' = heap
            /\ plans' = plans

\* C17: a generate_script or render_film request whose story_text is empty or
\* whitespace only, and a render_film request whose image_assets is empty, is
\* rejected with an error before planning: it adds no task to the scheduler
\* queue and leaves default_voice unchanged.
C17_ValidationBeforePlanning ==
    [](InvalidRejected) /\ [][InvalidTouchesNothing]_vars

\* C17 witness: a render_film request with a story, a voice and no image
\* assets has been rejected while the other request, with tasks queued, holds
\* the voice override
C17_Witness ==
    \E r, o \in 1..MaxRequests :
        /\ requests[r].payload.op = "render_film"
        /\ Strip(requests[r].payload.story_text) # <<>>
        /\ requests[r].payload.image_assets = <<>>
        /\ requests[r].payload.voice = Some("narrator")
        /\ requests[r].pc = "done"
        /\ requests[r].response = HTTPException(400, "image_assets must not be empty")
        /\ requests[o].pc = "planned"
        /\ queue # <<>>
        /\ default_voice = "narrator"

----------------------------------------------------------------------------
(* Timing: the arithmetic of _build_shot_plan as Python computes it, in IEEE   *)
(* 754 binary64 with round to nearest, ties to even.  A non-negative float is  *)
(* held as LimbCount limbs of LimbBits bits, most significant first: the first *)
(* limb is the integer part, the others the fraction, so that bit k, counted   *)
(* from the most significant bit of the first limb, has the weight             *)
(* 2^(LimbBits - k).  Every float of the inputs below and every exact sum or   *)
(* difference of two of them fits the limbs; quotients are rounded from the    *)
(* long division and its remainder.                                            *)
(* An operator's argument is evaluated at each of its uses, so the operations  *)
(* bind their operands and intermediate results as the members of singleton    *)
(* sets: Only({f(x) : x \in {e}}) is f(e) with e evaluated once.                *)

\* the significant bits of a Python float (IEEE 754 binary64)
Precision == 53

\* a limb holds LimbBits bits, a float LimbCount limbs
LimbBits == 15

LimbCount == 5

LimbBase == 2^LimbBits

BitCount == LimbBits * LimbCount

FloatZero == [i \in 1..LimbCount |-> 0]

\* the member of a singleton set
Only(S) == CHOOSE v \in S : TRUE

Bit(x, k) == (x[((k - 1) \div LimbBits) + 1] \div 2^(LimbBits - 1 - ((k - 1) % LimbBits))) % 2

\* the position of the leading one bit of x # 0
LeadingBit(x) ==
    CHOOSE k \in 1..BitCount : Bit(x, k) = 1 /\ \A j \in 1..(k - 1) : Bit(x, j) = 0

\* x < y
FloatLess(x, y) ==
    \E i \in 1..LimbCount : x[i] < y[i] /\ \A j \in 1..(i - 1) : x[j] = y[j]

\* max(a, b) of Python: b if b > a, else a
FloatMax(a, b) == Only({IF FloatLess(x, y) THEN y ELSE x : x \in {a}, y \in {b}})

\* the exact sum of two limb vectors
LimbSum(x, y) ==
    LET carry[i \in 1..(LimbCount + 1)] ==
            IF i = LimbCount + 1 THEN 0 ELSE (x[i] + y[i] + carry[i + 1]) \div LimbBase
    IN [i \in 1..LimbCount |-> (x[i] + y[i] + carry[i + 1]) % LimbBase]

\* x with the bits behind position k cleared
Truncated(x, k) ==
    [i \in 1..LimbCount |->
        IF i * LimbBits <= k THEN x[i]
        ELSE IF (i - 1) * LimbBits >= k THEN 0
        ELSE x[i] - (x[i] % 2^(i * LimbBits - k))]

\* the limb vector with bit k alone set
UnitAt(k) ==
    [i \in 1..LimbCount |->
        IF (k - 1) \div LimbBits + 1 = i THEN 2^(LimbBits - 1 - ((k - 1) % LimbBits)) ELSE 0]

\* round to nearest, ties to even, to Precision significant bits; `inexact`
\* tells that the value exceeds x by less than the weight of x's last bit
RoundToNearestEven(x, inexact) ==
    IF x = FloatZero THEN x
    ELSE Only({LET guard == last < BitCount /\ Bit(x, last + 1) = 1
                   sticky == inexact \/ \E j \in (last + 2)..BitCount : Bit(x, j) = 1
                   kept == IF last < BitCount THEN Truncated(x, last) ELSE x
               IN IF guard /\ (sticky \/ Bit(x, last) = 1)
                  THEN LimbSum(kept, UnitAt(last))
                  ELSE kept :
               last \in {LeadingBit(x) + Precision - 1}})

\* a + b of two floats
FloatAdd(a, b) ==
    Only({RoundToNearestEven(total, FALSE) : total \in {LimbSum(x, y) : x \in {a}, y \in {b}}})

\* n / d for a number n and a positive number d that floats hold exactly,
\* given as integers in the same unit: the quotient by long division, rounded
FloatQuotient(n, d) ==
    LET step[i \in 1..LimbCount] ==
            IF i = 1 THEN [q |-> n \div d, r |-> n % d]
            ELSE [q |-> (step[i - 1].r * LimbBase) \div d, r |-> (step[i - 1].r * LimbBase) % d]
    IN Only({RoundToNearestEven(quotient, step[LimbCount].r # 0) :
                quotient \in {[i \in 1..LimbCount |-> step[i].q]}})

\* sum(values) of Python before 3.12: 0 + v1 + v2 + ..., left to right
FloatSum(values) ==
    Only({LET loop[i \in 0..Len(vs)] ==
                  IF i = 0 THEN FloatZero ELSE FloatAdd(loop[i - 1], vs[i])
          IN loop[Len(vs)] : vs \in {values}})

\* the exact difference x - y of two limb vectors, x >= y
LimbDifference(x, y) ==
    LET borrow[i \in 1..(LimbCount + 1)] ==
            IF i = LimbCount + 1 THEN 0
            ELSE IF x[i] - y[i] - borrow[i + 1] < 0 THEN 1 ELSE 0
    IN [i \in 1..LimbCount |-> (x[i] - y[i] - borrow[i + 1] + LimbBase) % LimbBase]

\* a float with its sign: the compensation of the summation may be negative
Signed(negative, magnitude) == [negative |-> negative, magnitude |-> magnitude]

\* a + b of two signed floats
SignedAdd(a, b) ==
    Only({IF x.negative = y.negative
          THEN Signed(x.negative, FloatAdd(x.magnitude, y.magnitude))
          ELSE IF x.magnitude = y.magnitude THEN Signed(FALSE, FloatZero)
          ELSE IF FloatLess(x.magnitude, y.magnitude)
          THEN Signed(y.negative,
                      Only({RoundToNearestEven(d, FALSE) :
                               d \in {LimbDifference(y.magnitude, x.magnitude)}}))
          ELSE Signed(x.negative,
                      Only({RoundToNearestEven(d, FALSE) :
                               d \in {LimbDifference(x.magnitude, y.magnitude)}})) :
          x \in {a}, y \in {b}})

\* a - b of two signed floats
SignedSubtract(a, b) == Only({SignedAdd(a, Signed(~y.negative, y.magnitude)) : y \in {b}})

\* one pass of the float loop of sum() of Python 3.12 and later (Neumaier's
\* compensated summation): st.result is f_result, st.c the compensation
CompensatedStep(st, value) ==
    Only({[result |-> t,
           c |-> SignedAdd(st.c,
                           IF ~FloatLess(st.result.magnitude, value)
                           THEN SignedAdd(SignedSubtract(st.result, t), Signed(FALSE, value))
                           ELSE SignedAdd(SignedSubtract(Signed(FALSE, value), t), st.result))] :
          t \in {SignedAdd(st.result, Signed(FALSE, value))}})

\* sum(values) of Python 3.12 and later on non-negative floats: 0 + v1, then
\* the compensated loop, then the compensation is added
CompensatedSum(values) ==
    IF values = <<>> THEN FloatZero
    ELSE Only({IF st.c.magnitude = FloatZero THEN st.result.magnitude
               ELSE SignedAdd(st.result, st.c).magnitude :
               st \in {LET loop[i \in 1..Len(vs)] ==
                               IF i = 1
                               THEN [result |-> Signed(FALSE, vs[1]), c |-> Signed(FALSE, FloatZero)]
                               ELSE Only({CompensatedStep(prev, vs[i]) : prev \in {loop[i - 1]}})
                       IN loop[Len(vs)] : vs \in {values}}})

\* sum(values) as the interpreter of the run computes it
SumBuiltin(values) ==
    IF sum_builtin = "compensated" THEN CompensatedSum(values) ELSE FloatSum(values)

\* a float literal of k tenths: the float nearest to k / 10
Tenths(k) == FloatQuotient(k, 10)

\* self.minimum_segment_duration; the field holds tenths of a second
MinimumSegmentSeconds == Tenths(minimum_segment_duration)

\* len(words) / self.words_per_second for n words.  The field holds tenths;
\* the rates of TimingSettings are multiples of one half, which a float holds
\* exactly, so the quotient of the two floats is the quotient of 10 * n and
\* the field.
WordSeconds(n) == FloatQuotient(10 * n, words_per_second)

\* _estimate_duration on the floats
EstimateSeconds(s) ==
    IF Split(s) = <<>> THEN FloatZero
    ELSE FloatMax(MinimumSegmentSeconds, WordSeconds(Len(Split(s))))

\* _chunk_narration, lines 253-254 and 259 (269-270): the chunk of the given
\* duration is appended and start_offset advanced; end_offset is the property
\* of TTSChunk, start_offset + duration
ChunkSecondsStep(st, duration) ==
    [chunks |-> Append(st.chunks, [start_offset |-> st.start_offset,
                                   duration |-> duration,
                                   end_offset |-> FloatAdd(st.start_offset, duration)]),
     start_offset |-> FloatAdd(st.start_offset, duration)]

\* _chunk_narration: duration and start_offset of the chunks, the chunks given
\* by their word counts; the duration is that of lines 247 and 263
ChunkSeconds(sizes) ==
    LET loop[i \in 0..Len(sizes)] ==
            IF i = 0 THEN [chunks |-> <<>>, start_offset |-> FloatZero]
            ELSE Only({ChunkSecondsStep(st, duration) :
                          st \in {loop[i - 1]},
                          duration \in {FloatMax(MinimumSegmentSeconds, WordSeconds(sizes[i]))}})
    IN loop[Len(sizes)].chunks

\* _plan_ken_burns_segments, lines 293-302: the segment of the given duration
\* is appended and current_offset advanced
SegmentSecondsStep(st, duration) ==
    [segments |-> Append(st.segments, [start_offset |-> st.current_offset,
                                       duration |-> duration]),
     current_offset |-> FloatAdd(st.current_offset, duration)]

\* _plan_ken_burns_segments: duration and start_offset of the segments; the
\* duration is that of line 291
SegmentSeconds(chunks) ==
    LET loop[i \in 0..Len(chunks)] ==
            IF i = 0 THEN [segments |-> <<>>, current_offset |-> FloatZero]
            ELSE Only({SegmentSecondsStep(st, duration) :
                          st \in {loop[i - 1]},
                          duration \in {FloatMax(MinimumSegmentSeconds, chunks[i].duration)}})
    IN loop[Len(chunks)].segments

\* the durations of a sequence of records
Durations(items) == [i \in 1..Len(items) |-> items[i].duration]

\* _build_shot_plan without lines 157-158: the supplemental clips are left out
ClipSecondsWithoutClips(segments, clips, sentence) ==
    FloatMax(SumBuiltin(Durations(segments)), EstimateSeconds(sentence))

\* _build_shot_plan lines 156-160 on the floats; clips holds the clips' durations
ClipSeconds(segments, clips, sentence) ==
    FloatMax(IF clips # <<>>
             THEN FloatAdd(SumBuiltin(Durations(segments)), SumBuiltin(clips))
             ELSE SumBuiltin(Durations(segments)),
             EstimateSeconds(sentence))

\* _build_shot_plan lines 186-187 and 223-228: audio_track.duration and
\* assembled_video.duration, with what they are computed from
TimedShot(chunks, segments, inserted, clip_duration) ==
    [tts_chunks |-> chunks,
     ken_burns_segments |-> segments,
     inserted_clips |-> inserted,
     clip_duration |-> clip_duration,
     audio_track |-> FloatMax(IF chunks # <<>> THEN chunks[Len(chunks)].end_offset
                              ELSE FloatZero,
                              clip_duration),
     assembled_video |-> clip_duration]

\* _build_shot_plan: the durations and offsets of the shot it builds
ShotSeconds(sentence, shot_name, clips) ==
    Only({Only({Only({TimedShot(chunks, segments, inserted, clip_duration) :
                         clip_duration \in {ClipSeconds(segments, inserted, sentence)}}) :
                   segments \in {SegmentSeconds(chunks)},
                   inserted \in {[i \in 1..Len(clips) |-> Tenths(clips[i].duration)]}}) :
             chunks \in {Only({ChunkSeconds([i \in 1..Len(narration) |->
                                                Len(Split(narration[i].text))]) :
                                  narration \in {ChunkNarration(sentence, shot_name)}})}})

\* a sentence of four chunks, the last of one word
FourChunks == Sentence(3 * ChunkWordLimit + 1)

TimingTexts == {Sentence(n) : n \in 0..MaxWords} \cup {FourChunks, <<" ", "\n">>}

\* (words_per_second, minimum_segment_duration) in tenths: the defaults, and
\* rates of 7.5 and 12.5 words a second with and without a minimum
TimingSettings == {<<DefaultWordsPerSecond, DefaultMinimumSegmentDuration>>,
                   <<75, 0>>, <<75, 30>>, <<125, 0>>}

\* supplemental clips of 0 s, 0.1 s and 1.0 s
TimingClipLists ==
    {<<>>, <<ClipInput(1, 0)>>, <<ClipInput(1, 1)>>, <<ClipInput(1, 10), ClipInput(2, 1)>>}

InitTiming ==
    /\ SchedulerIdle
    /\ IngestIdle
    /\ ProductionIdle
    /\ BackendIdle
    /\ default_voice = "default"
    /\ \E setting \in TimingSettings :
         /\ words_per_second = setting[1]
         /\ minimum_segment_duration = setting[2]
    /\ ppc = "input"
    /\ text \in TimingTexts
    /\ supplemental_clips \in TimingClipLists
    /\ narration_chunks = <<>>
    /\ ken_burns_segments = <<>>
    /\ shot = None
    /\ estimated_duration = None
    /\ sum_builtin \in {"left_to_right", "compensated"}
    /\ timing = None
    /\ ReentrantIdle

\* controller._build_shot_plan(1, 1, text, "Shot 1.1", supplemental_clips)
CallBuildShotPlanTimed ==
    /\ ppc = "input"
    /\ timing' = Some(ShotSeconds(text, <<"Shot", 1, 1>>, supplemental_clips))
    /\ ppc' = "built"
    /\ UNCHANGED <<text, supplemental_clips, narration_chunks, ken_burns_segments, shot,
                   estimated_duration, sum_builtin>>
    /\ UNCHANGED <<schedulerVars, controllerVars, ingestVars, productionVars, backendVars, reentrantVars>>

NextTiming == CallBuildShotPlanTimed

SpecTiming == InitTiming /\ [][NextTiming]_vars

----------------------------------------------------------------------------
(* Properties of the shot's timing, checked under SpecTiming *)

\* the claim's precondition on the controller and the clips
TimingPrecondition ==
    /\ words_per_second > 0
    /\ minimum_segment_duration >= 0
    /\ \A i \in 1..Len(supplemental_clips) : supplemental_clips[i].duration >= 0

\* the last chunk's end_offset, 0 for a shot without chunks
NarrationEndSeconds ==
    IF timing[1].tts_chunks # <<>>
    THEN timing[1].tts_chunks[Len(timing[1].tts_chunks)].end_offset
    ELSE FloatZero

\* the sum of the shot's segment durations
MotionSeconds == SumBuiltin(Durations(timing[1].ken_burns_segments))

\* the sum of the segment durations + the sum of the supplemental clip durations
PlannedSeconds == FloatAdd(MotionSeconds, SumBuiltin(timing[1].inserted_clips))

\* every segment has the duration and the start_offset of its chunk
SegmentsFollowChunks ==
    /\ Len(timing[1].ken_burns_segments) = Len(timing[1].tts_chunks)
    /\ \A i \in 1..Len(timing[1].tts_chunks) :
          /\ timing[1].ken_burns_segments[i].duration = timing[1].tts_chunks[i].duration
          /\ timing[1].ken_burns_segments[i].start_offset = timing[1].tts_chunks[i].start_offset

\* the last chunk ends where the last segment ends
NarrationEndsWithMotion ==
    timing[1].tts_chunks # <<>> =>
        NarrationEndSeconds =
            FloatAdd(timing[1].ken_burns_segments[Len(timing[1].ken_burns_segments)].start_offset,
                     timing[1].ken_burns_segments[Len(timing[1].ken_burns_segments)].duration)

\* C21 as claimed: for positive words_per_second and non-negative
\* minimum_segment_duration and clip durations, in every shot built by
\* _build_shot_plan the last chunk's end_offset equals the sum of the segment
\* durations and is <= clip_duration, every segment has the duration and
\* start_offset of its chunk, and audio_track.duration ==
\* assembled_video.duration == clip_duration == sum of segment durations + sum
\* of supplemental clip durations.
C21_ClipDurationIsPlannedSum ==
    (timing # None /\ TimingPrecondition) =>
        /\ timing[1].tts_chunks # <<>> => NarrationEndSeconds = MotionSeconds
        /\ ~FloatLess(timing[1].clip_duration, NarrationEndSeconds)
        /\ SegmentsFollowChunks
        /\ timing[1].audio_track = timing[1].clip_duration
        /\ timing[1].assembled_video = timing[1].clip_duration
        /\ timing[1].clip_duration = PlannedSeconds

\* C21 as amended: under the same precondition every segment has the duration
\* and start_offset of its chunk, the last chunk ends where the last segment
\* ends, assembled_video.duration == clip_duration, clip_duration >= sum of
\* segment durations + sum of supplemental clip durations, and
\* audio_track.duration is the larger of the last chunk's end_offset and
\* clip_duration; where sum() adds left to right, also the last chunk's
\* end_offset equals the sum of the segment durations and is <= clip_duration,
\* and audio_track.duration == clip_duration.
C21_NarrationWithinShot ==
    (timing # None /\ TimingPrecondition) =>
        /\ SegmentsFollowChunks
        /\ NarrationEndsWithMotion
        /\ timing[1].assembled_video = timing[1].clip_duration
        /\ ~FloatLess(timing[1].clip_duration, PlannedSeconds)
        /\ timing[1].audio_track \in {NarrationEndSeconds, timing[1].clip_duration}
        /\ ~FloatLess(timing[1].audio_track, NarrationEndSeconds)
        /\ ~FloatLess(timing[1].audio_track, timing[1].clip_duration)
        /\ sum_builtin = "left_to_right" =>
              /\ timing[1].tts_chunks # <<>> => NarrationEndSeconds = MotionSeconds
              /\ ~FloatLess(timing[1].clip_duration, NarrationEndSeconds)
              /\ timing[1].audio_track = timing[1].clip_duration

\* C21 witness: a shot of two chunks without clips, sum() adding left to
\* right, whose clip_duration is the estimate, one rounding step above the sum
\* of its segment durations
C21_Witness ==
    /\ timing # None
    /\ TimingPrecondition
    /\ sum_builtin = "left_to_right"
    /\ Len(timing[1].tts_chunks) = 2
    /\ timing[1].inserted_clips = <<>>
    /\ FloatLess(PlannedSeconds, timing[1].clip_duration)
    /\ timing[1].clip_duration = EstimateSeconds(text)

----------------------------------------------------------------------------
(* The voice override of overlapping requests, checked under SpecBackend *)

\* the voices of the chunks planned for request r
PlannedVoices(r) ==
    UNION {UNION {{sh.tts_chunks[k].voice : k \in 1..Len(sh.tts_chunks)} :
                     sh \in {heap[scene].shots[j] : j \in 1..Len(heap[scene].shots)}} :
              scene \in {requests[r].scenes[i] : i \in 1..Len(requests[r].scenes)}}

\* the voice a render_film request asks for, if it asks for one
OwnVoices(r) ==
    IF requests[r].payload.voice \in {None, Some("")}
    THEN {}
    ELSE {requests[r].payload.voice[1]}

\* once every request has finished, default_voice is what it was before
VoiceRestored ==
    (\A r \in 1..MaxRequests : requests[r].pc = "done") => default_voice = "default"

\* every chunk planned for a render_film request carries that request's own
\* voice or the original default voice
VoicesOwnOrDefault ==
    \A r \in 1..MaxRequests :
        requests[r].payload.op = "render_film" =>
            PlannedVoices(r) \subseteq OwnVoices(r) \cup {"default"}

\* C23: the per-request voice override of render_film does not leak: for any
\* interleaving of overlapping requests on the shared controller, once every
\* request has finished default_voice equals the value it had before any of
\* them started, and every chunk planned for a request carries either that
\* request's own voice or the original default voice.
C23_VoiceOverrideDoesNotLeak ==
    /\ VoiceRestored
    /\ VoicesOwnOrDefault

----------------------------------------------------------------------------
(* Re-entrant scheduling: the handler that run calls holds the scheduler and   *)
(* calls enqueue, extend or schedule_scene on it before it returns or raises.  *)

\* the tasks a handler enqueues: a first and a last stage of the scheduled shot
HandlerTasks == {StageTask(stage, 1, 1) : stage \in {"prompting", "final_delivery"}}

\* the task lists a handler hands to extend: none, or two tasks
HandlerTaskLists ==
    {<<>>, <<StageTask("editing", 1, 1), StageTask("prompting", 1, 1)>>}

\* the StageTask objects of schedule_scene's enqueue calls, in call order
\* (lines 57-59)
SceneTasks(objects, scene) ==
    Flatten([j \in 1..Len(objects[scene].shots) |->
                [k \in 1..Len(PipelineStage) |-> StageTask(PipelineStage[k], scene, j)]])

\* a scene of one shot and a scene without shots exist; the queue is empty,
\* holds the tasks of the first scene, or holds two tasks of an extend call
InitReentrant ==
    /\ PlannerIdle
    /\ IngestIdle
    /\ ProductionIdle
    /\ BackendIdle
    /\ TimingIdle
    /\ ReentrantIdle
    /\ default_voice = "default"
    /\ words_per_second = DefaultWordsPerSecond
    /\ minimum_segment_duration = DefaultMinimumSegmentDuration
    /\ heap = <<CallerScene(1, 1), CallerScene(2, 0)>>
    /\ queue \in {<<>>, schedule_scene(<<>>, heap, 1)}
                    \cup {extend(<<>>, tasks) : tasks \in HandlerTaskLists}
    /\ plans = <<>>
    /\ calls = 0
    /\ pc = "idle"
    /\ task = None
    /\ handled = <<>>
    /\ startQueue = <<>>
    /\ raised = "none"
    /\ lastCall = [op |-> "init", scenes |-> <<>>, before |-> <<>>, pending |-> <<>>]

\* the handler calls scheduler.enqueue(task)
HandlerEnqueue ==
    /\ pc = "handler" /\ calls < MaxCalls
    /\ \E t \in HandlerTasks :
         /\ queue' = enqueue(queue, t)
         /\ enqueued' = Append(enqueued, t)
    /\ calls' = calls + 1
    /\ UNCHANGED <<heap, plans, pc, task, handled, startQueue, raised, lastCall>>
    /\ UNCHANGED <<controllerVars, plannerVars, ingestVars, productionVars, backendVars, timingVars>>

\* the handler calls scheduler.extend(tasks)
HandlerExtend ==
    /\ pc = "handler" /\ calls < MaxCalls
    /\ \E tasks \in HandlerTaskLists :
         /\ queue' = extend(queue, tasks)
         /\ enqueued' = enqueued \o tasks
    /\ calls' = calls + 1
    /\ UNCHANGED <<heap, plans, pc, task, handled, startQueue, raised, lastCall>>
    /\ UNCHANGED <<controllerVars, plannerVars, ingestVars, productionVars, backendVars, timingVars>>

\* the handler calls scheduler.schedule_scene(scene)
HandlerScheduleScene ==
    /\ pc = "handler" /\ calls < MaxCalls
    /\ \E scene \in 1..Len(heap) :
         /\ queue' = schedule_scene(queue, heap, scene)
         /\ enqueued' = enqueued \o SceneTasks(heap, scene)
    /\ calls' = calls + 1
    /\ UNCHANGED <<heap, plans, pc, task, handled, startQueue, raised, lastCall>>
    /\ UNCHANGED <<controllerVars, plannerVars, ingestVars, productionVars, backendVars, timingVars>>

NextReentrant ==
    \/ RunStart
    \/ RunPop
    \/ HandlerEnqueue
    \/ HandlerExtend
    \/ HandlerScheduleScene
    \/ HandlerReturn
    \/ HandlerRaisesException
    \/ HandlerRaisesBaseException
    \/ RunReturn

SpecReentrant == InitReentrant /\ [][NextReentrant]_vars

----------------------------------------------------------------------------
(* Properties of re-entrant scheduling, checked under SpecReentrant *)

\* C22: run returns only when the queue is empty; the tasks the handler
\* enqueues (by enqueue, extend or schedule_scene) while run is executing are
\* handed to the handler by that same run, after every task that was queued
\* when run started, in the order they were enqueued; when the handler
\* enqueues nothing, run returns after as many handler calls as there were
\* queued tasks.
C22_RunDrainsHandlerTasks ==
    /\ pc \in {"loop", "handler", "returned"} => handled \o queue = startQueue \o enqueued
    /\ pc = "returned" =>
          /\ queue = <<>>
          /\ handled = startQueue \o enqueued
          /\ enqueued = <<>> => Len(handled) = Len(startQueue)

\* C22 witness: run has returned after the seven queued tasks and eight tasks
\* that the handler enqueued on the way, one of its calls having raised
C22_Witness ==
    /\ pc = "returned"
    /\ Len(startQueue) = Len(PipelineStage)
    /\ Len(enqueued) = Len(PipelineStage) + 1
    /\ Len(handled) = 2 * Len(PipelineStage) + 1
    /\ raised # "none"

====
